---- MODULE Spec2Model ----
(***************************************************************************)
(* Model of the natural-language task extractor of TaskFlow:               *)
(*   src/src/utils/nlpParser.ts            parseNaturalLanguage            *)
(*   src/src/utils/meetingMinutesParser.ts parseMultipleTasks              *)
(*   src/unnamed/part_002 (openaiService)  parseTaskWithAI, ...WithAI      *)
(*   src/unnamed/part_005 (TaskInput)      debounced parse effect          *)
(*   src/src/components/MeetingMinutesParser.tsx  handleParse              *)
(*                                                                         *)
(* Strings are TLA+ strings, handled one character at a time with SubSeq.  *)
(* A Date is a JavaScript time value: a day number since 1970-01-01 and    *)
(* the second of that day, both in local time; the fields are computed     *)
(* from it as the ECMAScript getters do.                                   *)
(***************************************************************************)
EXTENDS Integers, Sequences, FiniteSets, TLC

\* Call(f, a) is the call of the function named f on the arguments a.
\* The larger functions are called through this one recursive operator,
\* f_(x, y) == Call("f", <<x, y>>), which keeps the expansion of the
\* definitions by the model checker linear in the size of the module.
RECURSIVE Call(_, _)

(***************************************************************************)
(* Characters and strings (String.prototype and RegExp primitives)         *)
(***************************************************************************)
DigitChars == {"0", "1", "2", "3", "4", "5", "6", "7", "8", "9"}

LowerChars ==
  {"a", "b", "c", "d", "e", "f", "g", "h", "i", "j", "k", "l", "m",
   "n", "o", "p", "q", "r", "s", "t", "u", "v", "w", "x", "y", "z"}

UpperChars ==
  {"A", "B", "C", "D", "E", "F", "G", "H", "I", "J", "K", "L", "M",
   "N", "O", "P", "Q", "R", "S", "T", "U", "V", "W", "X", "Y", "Z"}

LetterChars == LowerChars \cup UpperChars

\* \w of a regular expression
WordChars == LetterChars \cup DigitChars \cup {"_"}

\* \s of a regular expression
SpaceChars == {" ", "\n", "\t", "\r"}

LowerOf ==
  [c \in UpperChars |->
     CASE c = "A" -> "a" [] c = "B" -> "b" [] c = "C" -> "c" [] c = "D" -> "d"
       [] c = "E" -> "e" [] c = "F" -> "f" [] c = "G" -> "g" [] c = "H" -> "h"
       [] c = "I" -> "i" [] c = "J" -> "j" [] c = "K" -> "k" [] c = "L" -> "l"
       [] c = "M" -> "m" [] c = "N" -> "n" [] c = "O" -> "o" [] c = "P" -> "p"
       [] c = "Q" -> "q" [] c = "R" -> "r" [] c = "S" -> "s" [] c = "T" -> "t"
       [] c = "U" -> "u" [] c = "V" -> "v" [] c = "W" -> "w" [] c = "X" -> "x"
       [] c = "Y" -> "y" [] c = "Z" -> "z"]

UpperOf ==
  [c \in LowerChars |->
     CASE c = "a" -> "A" [] c = "b" -> "B" [] c = "c" -> "C" [] c = "d" -> "D"
       [] c = "e" -> "E" [] c = "f" -> "F" [] c = "g" -> "G" [] c = "h" -> "H"
       [] c = "i" -> "I" [] c = "j" -> "J" [] c = "k" -> "K" [] c = "l" -> "L"
       [] c = "m" -> "M" [] c = "n" -> "N" [] c = "o" -> "O" [] c = "p" -> "P"
       [] c = "q" -> "Q" [] c = "r" -> "R" [] c = "s" -> "S" [] c = "t" -> "T"
       [] c = "u" -> "U" [] c = "v" -> "V" [] c = "w" -> "W" [] c = "x" -> "X"
       [] c = "y" -> "Y" [] c = "z" -> "Z"]

\* s.charAt(i - 1): the i-th character (1-based), "" outside the string
CharAt(s, i) == IF 1 <= i /\ i <= Len(s) THEN SubSeq(s, i, i) ELSE ""

\* s.substring(i - 1): the suffix that starts at the i-th character
From(s, i) == IF i > Len(s) THEN "" ELSE SubSeq(s, i, Len(s))

\* s.substring(i - 1, j): the characters i..j
Sub(s, i, j) == IF j < i THEN "" ELSE SubSeq(s, i, j)

\* c.toLowerCase() of one character
LowerChar(c) == IF c \in UpperChars THEN LowerOf[c] ELSE c

\* s.toLowerCase(), halving the string so that the evaluation stays shallow
RECURSIVE toLowerCase(_)
toLowerCase(s) ==
  IF s = "" THEN ""
  ELSE IF Len(s) = 1 THEN LowerChar(s)
  ELSE toLowerCase(SubSeq(s, 1, Len(s) \div 2))
         \o toLowerCase(SubSeq(s, Len(s) \div 2 + 1, Len(s)))

\* w occurs in s at the i-th character
At(s, i, w) ==
  /\ i >= 1
  /\ i + Len(w) - 1 <= Len(s)
  /\ SubSeq(s, i, i + Len(w) - 1) = w

\* the same, ignoring case (the i flag); w is given in lower case
AtI(s, i, w) ==
  /\ i >= 1
  /\ i + Len(w) - 1 <= Len(s)
  /\ \A k \in 1..Len(w) :
       LowerChar(SubSeq(s, i + k - 1, i + k - 1)) = SubSeq(w, k, k)

\* the leftmost position in lo..hi where the predicate P(s, position)
\* holds, 0 when there is none; the left half is searched first
RECURSIVE FirstPosIn(_, _, _, _)
FirstPosIn(P(_, _), s, lo, hi) ==
  IF lo > hi THEN 0
  ELSE IF lo = hi THEN (IF P(s, lo) THEN lo ELSE 0)
  ELSE LET mid  == (lo + hi) \div 2
           left == FirstPosIn(P, s, lo, mid)
       IN IF left > 0 THEN left ELSE FirstPosIn(P, s, mid + 1, hi)

\* the first position >= i (1-based) where w occurs in s, 0 when there is none
FindFrom(s, w, i) ==
  LET P(t, j) == At(t, j, w)
  IN FirstPosIn(P, s, i, Len(s))

\* s.indexOf(w): 0-based, -1 when w does not occur
indexOf(s, w) == FindFrom(s, w, 1) - 1

indexOf_(s, w) == Call("indexOf", <<s, w>>)

\* s.includes(w)
includes(s, w) == FindFrom(s, w, 1) > 0

\* s.startsWith(w)
startsWith(s, w) == At(s, 1, w)

startsWith_(s, w) == Call("startsWith", <<s, w>>)

\* end of the longest run of characters of class C that starts at i
\* (i - 1 when the i-th character is not in C)
RunEnd(s, i, C) ==
  LET P(t, j) == SubSeq(t, j, j) \notin C
      stop == FirstPosIn(P, s, i, Len(s))
  IN IF i > Len(s) THEN i - 1
     ELSE IF stop = 0 THEN Len(s)
     ELSE stop - 1

RunEnd_(s, i, C) == Call("RunEnd", <<s, i, C>>)

\* \b between the characters i - 1 and i
WordBoundary(s, i) ==
  (CharAt(s, i - 1) \in WordChars) # (CharAt(s, i) \in WordChars)

WordBoundary_(s, i) == Call("WordBoundary", <<s, i>>)

\* the first of the words ws (tried in order, as a regex alternation does)
\* that occurs at position i ignoring case; "" when none does
RECURSIVE AltAtI(_, _, _)
AltAtI(s, i, ws) ==
  IF ws = <<>> THEN ""
  ELSE IF AtI(s, i, Head(ws)) THEN Head(ws)
  ELSE AltAtI(s, i, Tail(ws))

AltAtI_(s, i, ws) == Call("AltAtI", <<s, i, ws>>)

\* s.trim()
trimStart(s) == From(s, RunEnd_(s, 1, SpaceChars) + 1)

trimStart_(s) == Call("trimStart", <<s>>)

trimEnd(s) ==
  LET L == {j \in 1..Len(s) : SubSeq(s, j, j) \notin SpaceChars}
  IN IF L = {} THEN "" ELSE SubSeq(s, 1, CHOOSE j \in L : \A k \in L : k <= j)

trimEnd_(s) == Call("trimEnd", <<s>>)

\* a trim of the start only
trim_mutant(s) == trimStart_(s)

\* s.trim()
trim(s) == trimEnd_(trimStart_(s))

\* parseInt of a string of decimal digits
DigitVal ==
  [c \in DigitChars |->
     CASE c = "0" -> 0 [] c = "1" -> 1 [] c = "2" -> 2 [] c = "3" -> 3
       [] c = "4" -> 4 [] c = "5" -> 5 [] c = "6" -> 6 [] c = "7" -> 7
       [] c = "8" -> 8 [] c = "9" -> 9]

RECURSIVE parseInt(_)
parseInt(s) ==
  IF s = "" THEN 0
  ELSE 10 * parseInt(SubSeq(s, 1, Len(s) - 1)) + DigitVal[SubSeq(s, Len(s), Len(s))]

parseInt_(s) == Call("parseInt", <<s>>)

\* Number.prototype.toString for a natural number
DigitStr == <<"0", "1", "2", "3", "4", "5", "6", "7", "8", "9">>

RECURSIVE NumStr(_)
NumStr(n) ==
  IF n < 10 THEN DigitStr[n + 1] ELSE NumStr(n \div 10) \o DigitStr[(n % 10) + 1]

\* zero-padded decimal of width w
RECURSIVE Pad(_, _)
Pad(n, w) == IF w <= 0 THEN "" ELSE Pad(n \div 10, w - 1) \o DigitStr[(n % 10) + 1]

\* an optional value: <<>> is null, <<v>> is the value v
Null == <<>>
Some(v) == <<v>>

(***************************************************************************)
(* Dates (the ECMAScript Date object, local time)                          *)
(***************************************************************************)
SecondsPerDay == 24 * 60 * 60

\* day number of the civil date y-m-d (m in 1..12), 1970-01-01 = 0
DaysFromCivil(y, m, d) ==
  LET yy  == IF m <= 2 THEN y - 1 ELSE y
      era == yy \div 400
      yoe == yy - era * 400
      mp  == IF m > 2 THEN m - 3 ELSE m + 9
      doy == (153 * mp + 2) \div 5 + d - 1
      doe == yoe * 365 + yoe \div 4 - yoe \div 100 + doy
  IN era * 146097 + doe - 719468

\* civil date [y, m (1..12), d] of a day number
CivilFromDays(z) ==
  LET zz  == z + 719468
      era == zz \div 146097
      doe == zz - era * 146097
      yoe == (doe - doe \div 1460 + doe \div 36524 - doe \div 146096) \div 365
      doy == doe - (365 * yoe + yoe \div 4 - yoe \div 100)
      mp  == (5 * doy + 2) \div 153
      d   == doy - (153 * mp + 2) \div 5 + 1
      m   == IF mp < 10 THEN mp + 3 ELSE mp - 9
  IN [y |-> (yoe + era * 400) + (IF m <= 2 THEN 1 ELSE 0), m |-> m, d |-> d]

CivilFromDays_(z) == Call("CivilFromDays", <<z>>)

\* MakeDay(year, month, date) of ECMAScript: month is 0-based and may lie
\* outside 0..11, date may lie outside the month
MakeDay(y, mo, dt) == DaysFromCivil(y + mo \div 12, (mo % 12) + 1, 1) + dt - 1

\* MakeDate(day, time): the time may lie outside the day
MakeDate(day, secs) ==
  [day |-> day + secs \div SecondsPerDay, sec |-> secs % SecondsPerDay]

getFullYear(t) == CivilFromDays_(t.day).y
getMonth(t)    == CivilFromDays_(t.day).m - 1
getDate(t)     == CivilFromDays_(t.day).d
getDay(t)      == (t.day + 4) % 7
getHours(t)    == t.sec \div 3600
getMinutes(t)  == (t.sec % 3600) \div 60
getSeconds(t)  == t.sec % 60

\* new Date(y, mo, d): midnight of that day
NewDate(y, mo, d) == [day |-> MakeDay(y, mo, d), sec |-> 0]

setDate(t, n)     == [t EXCEPT !.day = MakeDay(getFullYear(t), getMonth(t), n)]

setDate_(t, n) == Call("setDate", <<t, n>>)
setMonth(t, mo)   == [t EXCEPT !.day = MakeDay(getFullYear(t), mo, getDate(t))]

setMonth_(t, mo) == Call("setMonth", <<t, mo>>)
setFullYear(t, y) == [t EXCEPT !.day = MakeDay(y, getMonth(t), getDate(t))]

setFullYear_(t, y) == Call("setFullYear", <<t, y>>)

\* setHours(h, mi, s, 0)
setHours(t, h, mi, s) == MakeDate(t.day, h * 3600 + mi * 60 + s)

\* a < b on Date objects
Before(a, b) == a.day < b.day \/ (a.day = b.day /\ a.sec < b.sec)

\* the same instant in UTC; tz is the zone's offset from UTC in minutes
ToUTC(t, tz)   == MakeDate(t.day, t.sec - tz * 60)

ToUTC_(t, tz) == Call("ToUTC", <<t, tz>>)
ToLocal(u, tz) == MakeDate(u.day, u.sec + tz * 60)

ToLocal_(u, tz) == Call("ToLocal", <<u, tz>>)

\* Date.prototype.toISOString: YYYY-MM-DDTHH:MM:SS.000Z in UTC
toISOString(t, tz) ==
  LET u == ToUTC_(t, tz)
      c == CivilFromDays_(u.day)
  IN Pad(c.y, 4) \o "-" \o Pad(c.m, 2) \o "-" \o Pad(c.d, 2) \o "T"
       \o Pad(getHours(u), 2) \o ":" \o Pad(getMinutes(u), 2) \o ":"
       \o Pad(getSeconds(u), 2) \o ".000Z"

toISOString_(t, tz) == Call("toISOString", <<t, tz>>)

AllDigits(s) == \A i \in 1..Len(s) : SubSeq(s, i, i) \in DigitChars

\* the shape YYYY-MM-DDTHH:MM:SS.mmmZ with fields in range
IsISOString(s) ==
  /\ Len(s) = 24
  /\ AllDigits(SubSeq(s, 1, 4)) /\ SubSeq(s, 5, 5) = "-"
  /\ AllDigits(SubSeq(s, 6, 7)) /\ SubSeq(s, 8, 8) = "-"
  /\ AllDigits(SubSeq(s, 9, 10)) /\ SubSeq(s, 11, 11) = "T"
  /\ AllDigits(SubSeq(s, 12, 13)) /\ SubSeq(s, 14, 14) = ":"
  /\ AllDigits(SubSeq(s, 15, 16)) /\ SubSeq(s, 17, 17) = ":"
  /\ AllDigits(SubSeq(s, 18, 19)) /\ SubSeq(s, 20, 20) = "."
  /\ AllDigits(SubSeq(s, 21, 23)) /\ SubSeq(s, 24, 24) = "Z"
  /\ parseInt_(SubSeq(s, 6, 7)) \in 1..12
  /\ parseInt_(SubSeq(s, 9, 10)) \in 1..31
  /\ parseInt_(SubSeq(s, 12, 13)) \in 0..23
  /\ parseInt_(SubSeq(s, 15, 16)) \in 0..59
  /\ parseInt_(SubSeq(s, 18, 19)) \in 0..59

IsISOString_(s) == Call("IsISOString", <<s>>)

\* new Date(s) for an ISO string: the local Date of that UTC instant;
\* an Invalid Date (valid = FALSE) for any other string
InvalidDate == [valid |-> FALSE, t |-> [day |-> 0, sec |-> 0]]

DateFromString(s, tz) ==
  IF ~IsISOString_(s) THEN InvalidDate
  ELSE [valid |-> TRUE,
        t |-> ToLocal_(MakeDate(MakeDay(parseInt_(SubSeq(s, 1, 4)),
                                       parseInt_(SubSeq(s, 6, 7)) - 1,
                                       parseInt_(SubSeq(s, 9, 10))),
                               parseInt_(SubSeq(s, 12, 13)) * 3600
                                 + parseInt_(SubSeq(s, 15, 16)) * 60
                                 + parseInt_(SubSeq(s, 18, 19))),
                      tz)]

DateFromString_(s, tz) == Call("DateFromString", <<s, tz>>)

MonthLong ==
  <<"January", "February", "March", "April", "May", "June", "July",
    "August", "September", "October", "November", "December">>

\* toLocaleDateString('en-US', {day: 'numeric', month: 'long', year: 'numeric'})
toLocaleDateString(t) ==
  MonthLong[getMonth(t) + 1] \o " " \o NumStr(getDate(t)) \o ", "
    \o NumStr(getFullYear(t))

toLocaleDateString_(t) == Call("toLocaleDateString", <<t>>)

\* toLocaleTimeString('en-US', {hour: 'numeric', minute: '2-digit', hour12: true})
toLocaleTimeString(t) ==
  LET h   == getHours(t)
      h12 == IF h % 12 = 0 THEN 12 ELSE h % 12
  IN NumStr(h12) \o ":" \o Pad(getMinutes(t), 2) \o " "
       \o (IF h < 12 THEN "AM" ELSE "PM")

toLocaleTimeString_(t) == Call("toLocaleTimeString", <<t>>)

(***************************************************************************)
(* Regular-expression search: the leftmost position where a pattern,       *)
(* given as a predicate on (string, position), matches; 0 when none does   *)
(***************************************************************************)
FirstPos(P(_, _), s, i) == FirstPosIn(P, s, i, Len(s))

NoMatch == [ok |-> FALSE]

(***************************************************************************)
(* src/src/utils/nlpParser.ts                                              *)
(***************************************************************************)

\* ensureFutureDate: only the (year, month, day) parts are compared; the
\* "same day, earlier time" test sits inside the branch taken when the
\* day is strictly before today
ensureFutureDate(date, now) ==
  LET dateWithoutTime == NewDate(getFullYear(date), getMonth(date), getDate(date))
      nowWithoutTime  == NewDate(getFullYear(now), getMonth(now), getDate(now))
  IN IF Before(dateWithoutTime, nowWithoutTime)
     THEN IF dateWithoutTime = nowWithoutTime /\ Before(date, now)
          THEN setDate_(date, getDate(date) + 1)
          ELSE setFullYear_(date, getFullYear(date) + 1)
     ELSE date

ensureFutureDate_(date, now) == Call("ensureFutureDate", <<date, now>>)

formatDateForDisplay(date, timeSpecified) ==
  [formattedDate |-> toLocaleDateString_(date),
   formattedTime |-> IF timeSpecified THEN Some(toLocaleTimeString_(date)) ELSE Null]

formatDateForDisplay_(date, timeSpecified) == Call("formatDateForDisplay", <<date, timeSpecified>>)

stopWords ==
  <<"for", "by", "with", "p1", "p2", "p3", "p4", "tomorrow", "today",
    "next week", "monday", "tuesday", "wednesday", "thursday", "friday",
    "saturday", "sunday">>

commonNames ==
  <<"john", "jane", "alex", "sarah", "mike", "lisa", "tom", "anna", "david",
    "emma", "aman", "rajeev", "priya", "raj", "neha", "amit", "sanya", "rohit">>

\* the loop over stopWords.concat(commonNames): the first word OF THE LIST
\* found at an index > 0 cuts the title
RECURSIVE TitleCut(_, _, _)
TitleCut(inputText, text, words) ==
  IF words = <<>> THEN inputText
  ELSE LET index == indexOf_(text, Head(words))
       IN IF index > 0 THEN trim(Sub(inputText, 1, index))
          ELSE TitleCut(inputText, text, Tail(words))

TitleCut_(inputText, text, words) == Call("TitleCut", <<inputText, text, words>>)

extractTitle(inputText) ==
  TitleCut_(inputText, toLowerCase(inputText), stopWords \o commonNames)

extractTitle_(inputText) == Call("extractTitle", <<inputText>>)

\* /(?:for|with)\s+([a-zA-Z]+(?:\s+[a-zA-Z]+)?)/i  -- end of the match at i
ForWithEnd(s, i) ==
  LET kw == AltAtI_(s, i, <<"for", "with">>)
      sp == RunEnd_(s, i + Len(kw), SpaceChars)
      e1 == RunEnd_(s, sp + 1, LetterChars)
      s2 == RunEnd_(s, e1 + 1, SpaceChars)
      e2 == RunEnd_(s, s2 + 1, LetterChars)
  IN IF kw = "" \/ sp < i + Len(kw) \/ e1 <= sp THEN 0
     ELSE IF s2 > e1 /\ e2 > s2 THEN e2
     ELSE e1

ForWithEnd_(s, i) == Call("ForWithEnd", <<s, i>>)

ForWithAt(s, i) == ForWithEnd_(s, i) > 0

\* matches[0].replace(/(?:for|with)\s+/i, '').trim()
ForWithStrip(m) ==
  LET kw == AltAtI_(m, 1, <<"for", "with">>)
      sp == RunEnd_(m, 1 + Len(kw), SpaceChars)
  IN trim(From(m, sp + 1))

ForWithStrip_(m) == Call("ForWithStrip", <<m>>)

\* /\b([A-Z][a-z]+(?:\s+[A-Z][a-z]+)?)\b/g  -- end of the match at i
CapNameEnd(s, i) ==
  LET e1 == RunEnd_(s, i + 1, LowerChars)
      s2 == RunEnd_(s, e1 + 1, SpaceChars)
      e2 == RunEnd_(s, s2 + 2, LowerChars)
  IN IF ~WordBoundary_(s, i) \/ CharAt(s, i) \notin UpperChars \/ e1 <= i THEN 0
     ELSE IF /\ s2 > e1
             /\ CharAt(s, s2 + 1) \in UpperChars
             /\ e2 > s2 + 1
             /\ WordBoundary_(s, e2 + 1)
          THEN e2
     ELSE IF WordBoundary_(s, e1 + 1) THEN e1
     ELSE 0

CapNameEnd_(s, i) == Call("CapNameEnd", <<s, i>>)

CapNameAt(s, i) == CapNameEnd_(s, i) > 0

\* the assignee loop: both patterns are matched against `text`, the
\* lower-cased inputText; the capitalized names are then read from `inputText`
extractAssigneeNLP(inputText) ==
  LET text == toLowerCase(inputText)
      p1   == FirstPos(ForWithAt, text, 1)
      p2   == FirstPos(CapNameAt, text, 1)
      n    == FirstPos(CapNameAt, inputText, 1)
  IN IF p1 > 0 THEN ForWithStrip_(Sub(text, p1, ForWithEnd_(text, p1)))
     ELSE IF p2 > 0 /\ n > 0 THEN Sub(inputText, n, CapNameEnd_(inputText, n))
     ELSE ""

extractAssigneeNLP_(inputText) == Call("extractAssigneeNLP", <<inputText>>)

\* (\d{1,2})(?::(\d{2}))?  at i: [e |-> end of it, de |-> end of the hour
\* digits, min |-> the minute digits or ""]
HourMinAt(s, i) ==
  LET de == IF CharAt(s, i + 1) \in DigitChars THEN i + 1 ELSE i
      hasMin == /\ CharAt(s, de + 1) = ":"
                /\ CharAt(s, de + 2) \in DigitChars
                /\ CharAt(s, de + 3) \in DigitChars
  IN [de  |-> de,
      e   |-> IF hasMin THEN de + 3 ELSE de,
      min |-> IF hasMin THEN Sub(s, de + 2, de + 3) ELSE ""]

HourMinAt_(s, i) == Call("HourMinAt", <<s, i>>)

\* \s*(am|pm) after position e: "am", "pm" or ""
AmPmAfter(s, e) == AltAtI_(s, RunEnd_(s, e + 1, SpaceChars) + 1, <<"am", "pm">>)

\* /(?:at\s+)?(\d{1,2})(?::(\d{2}))?\s*(am|pm)/i at the digit position i.
\* The optional "at " prefix moves the start of the match, never its groups.
\* (Taking one digit of two, or dropping the minutes, leaves a digit or a
\* colon where am|pm must start, so backtracking finds no other match.)
TimeAmPmAt(s, i) ==
  /\ CharAt(s, i) \in DigitChars
  /\ AmPmAfter(s, HourMinAt_(s, i).e) # ""

TimeAmPmAt_(s, i) == Call("TimeAmPmAt", <<s, i>>)

\* /(?:at\s+)?(\d{1,2})(?::(\d{2}))?(?:\s*(am|pm))?/i at the digit position i
TimeBareAt(s, i) == CharAt(s, i) \in DigitChars

TimeBareAt_(s, i) == Call("TimeBareAt", <<s, i>>)

TimeGroups(s, i) ==
  LET hm == HourMinAt_(s, i)
  IN [ok |-> TRUE, hour |-> Sub(s, i, hm.de), minute |-> hm.min,
      ampm |-> AmPmAfter(s, hm.e)]

TimeGroups_(s, i) == Call("TimeGroups", <<s, i>>)

\* the loop over timePatterns: the first pattern that matches decides
matchTime(text) ==
  LET a == FirstPos(TimeAmPmAt, text, 1)
      b == FirstPos(TimeBareAt, text, 1)
  IN IF a > 0 THEN TimeGroups_(text, a)
     ELSE IF b > 0 THEN TimeGroups_(text, b)
     ELSE NoMatch

matchTime_(text) == Call("matchTime", <<text>>)

DefaultTime == [hour |-> 17, minute |-> 0, timeSpecified |-> FALSE]

\* a conversion that leaves afternoon hours on the 12-hour clock
convertHour_mutant(hour, ampm) ==
  IF ampm = "am" /\ hour = 12 THEN 0 ELSE hour

\* AM/PM conversion of the matched hour
convertHour(hour, ampm) ==
  IF ampm = "pm" /\ hour < 12 THEN hour + 12
  ELSE IF ampm = "am" /\ hour = 12 THEN 0
  ELSE hour

\* a time step that wraps the hour and the minute instead of refusing them
extractTime_mutant(text) ==
  LET timeMatch == matchTime_(text)
  IN IF ~timeMatch.ok THEN DefaultTime
     ELSE [hour   |-> convertHour(parseInt_(timeMatch.hour), timeMatch.ampm) % 24,
           minute |-> (IF timeMatch.minute # "" THEN parseInt_(timeMatch.minute) ELSE 0) % 60,
           timeSpecified |-> TRUE]

extractTime(text) ==
  LET timeMatch == matchTime_(text)
  IN IF ~timeMatch.ok THEN DefaultTime
     ELSE LET hour   == convertHour(parseInt_(timeMatch.hour), timeMatch.ampm)
              minute == IF timeMatch.minute # "" THEN parseInt_(timeMatch.minute) ELSE 0
          IN IF hour >= 0 /\ hour <= 23 /\ minute >= 0 /\ minute <= 59
             THEN [hour |-> hour, minute |-> minute, timeSpecified |-> TRUE]
             ELSE DefaultTime

extractTime_(text) == Call("extractTime", <<text>>)

monthNames ==
  <<"january", "february", "march", "april", "may", "june", "july",
    "august", "september", "october", "november", "december">>

dayNames ==
  <<"sunday", "monday", "tuesday", "wednesday", "thursday", "friday", "saturday">>

\* the alternation of datePatterns[3], in its own order
weekdayAlternation ==
  <<"monday", "tuesday", "wednesday", "thursday", "friday", "saturday", "sunday">>

\* Array.prototype.indexOf: 0-based, -1 when absent
RECURSIVE SeqIndexFrom(_, _, _)
SeqIndexFrom(seq, x, i) ==
  IF i > Len(seq) THEN -1
  ELSE IF seq[i] = x THEN i - 1
  ELSE SeqIndexFrom(seq, x, i + 1)

SeqIndexFrom_(seq, x, i) == Call("SeqIndexFrom", <<seq, x, i>>)

SeqIndexOf(seq, x) == SeqIndexFrom_(seq, x, 1)

\* (?:st|nd|rd|th)? after position e: the end of it
OrdinalEnd(s, e) ==
  IF AltAtI_(s, e + 1, <<"st", "nd", "rd", "th">>) # "" THEN e + 2 ELSE e

\* /(\d{1,2})(?:st|nd|rd|th)?\s+(january|...|december)/i at i
DayMonthGroups(s, i) ==
  LET de == IF CharAt(s, i + 1) \in DigitChars THEN i + 1 ELSE i
      oe == OrdinalEnd(s, de)
      sp == RunEnd_(s, oe + 1, SpaceChars)
      mn == AltAtI_(s, sp + 1, monthNames)
  IN IF CharAt(s, i) \in DigitChars /\ sp > oe /\ mn # ""
     THEN [ok |-> TRUE, day |-> Sub(s, i, de), month |-> mn]
     ELSE NoMatch

DayMonthGroups_(s, i) == Call("DayMonthGroups", <<s, i>>)

DayMonthAt(s, i) == DayMonthGroups_(s, i).ok

\* /(january|...|december)\s+(\d{1,2})(?:st|nd|rd|th)?/i at i
MonthDayGroups(s, i) ==
  LET mn == AltAtI_(s, i, monthNames)
      sp == RunEnd_(s, i + Len(mn), SpaceChars)
      de == IF CharAt(s, sp + 2) \in DigitChars THEN sp + 2 ELSE sp + 1
  IN IF mn # "" /\ sp >= i + Len(mn) /\ CharAt(s, sp + 1) \in DigitChars
     THEN [ok |-> TRUE, day |-> Sub(s, sp + 1, de), month |-> mn]
     ELSE NoMatch

MonthDayGroups_(s, i) == Call("MonthDayGroups", <<s, i>>)

MonthDayAt(s, i) == MonthDayGroups_(s, i).ok

\* /(\d{1,2})\/(\d{1,2})/ at i
SlashGroups(s, i) ==
  LET de == IF CharAt(s, i + 1) \in DigitChars THEN i + 1 ELSE i
      e2 == IF CharAt(s, de + 3) \in DigitChars THEN de + 3 ELSE de + 2
  IN IF /\ CharAt(s, i) \in DigitChars
        /\ CharAt(s, de + 1) = "/"
        /\ CharAt(s, de + 2) \in DigitChars
     THEN [ok |-> TRUE, g1 |-> Sub(s, i, de), g2 |-> Sub(s, de + 2, e2)]
     ELSE NoMatch

SlashGroups_(s, i) == Call("SlashGroups", <<s, i>>)

SlashAt(s, i) == SlashGroups_(s, i).ok

\* /(monday|tuesday|wednesday|thursday|friday|saturday|sunday)/i at i
WeekdayAt(s, i) == AltAtI_(s, i, weekdayAlternation) # ""

\* dueDate = new Date(); setMonth(month); setDate(day); ensureFutureDate
monthDayDate(now, month, day) ==
  ensureFutureDate_(setDate_(setMonth_(now, month), day), now)

monthDayDate_(now, month, day) == Call("monthDayDate", <<now, month, day>>)

\* an offset that leaves today's weekday on today
daysUntilTarget_mutant(targetDay, today) == (targetDay - today + 7) % 7

\* day of week: (targetDay - today + 7) % 7 || 7
daysUntilTarget(targetDay, today) ==
  LET d == (targetDay - today + 7) % 7
  IN IF d = 0 THEN 7 ELSE d

\* the loop over datePatterns: the first pattern that matches decides
absoluteDate(text, now) ==
  LET dm == FirstPos(DayMonthAt, text, 1)
      md == FirstPos(MonthDayAt, text, 1)
      sl == FirstPos(SlashAt, text, 1)
      wd == FirstPos(WeekdayAt, text, 1)
  IN IF dm > 0 THEN
       LET g == DayMonthGroups_(text, dm)
       IN monthDayDate_(now, SeqIndexOf(monthNames, g.month), parseInt_(g.day))
     ELSE IF md > 0 THEN
       LET g == MonthDayGroups_(text, md)
       IN monthDayDate_(now, SeqIndexOf(monthNames, g.month), parseInt_(g.day))
     ELSE IF sl > 0 THEN
       LET g == SlashGroups_(text, sl)
       IN monthDayDate_(now, parseInt_(g.g1) - 1, parseInt_(g.g2))
     ELSE IF wd > 0 THEN
       LET targetDay == SeqIndexOf(dayNames, AltAtI_(text, wd, weekdayAlternation))
       IN setDate_(now, getDate(now) + daysUntilTarget(targetDay, getDay(now)))
     ELSE setHours(now, 17, 0, 0)

absoluteDate_(text, now) == Call("absoluteDate", <<text, now>>)

\* the date step: relative words first, then the date patterns; without
\* any of them dueDate stays "5 PM today"
extractDate(text, now) ==
  IF includes(text, "tomorrow") THEN setDate_(now, getDate(now) + 1)
  ELSE IF includes(text, "today") THEN now
  ELSE IF includes(text, "next week") THEN setDate_(now, getDate(now) + 7)
  ELSE absoluteDate_(text, now)

extractDate_(text, now) == Call("extractDate", <<text, now>>)

\* /p([1-4])/i at i
PTokenAt(s, i) == AtI(s, i, "p") /\ CharAt(s, i + 1) \in {"1", "2", "3", "4"}

PTokenAt_(s, i) == Call("PTokenAt", <<s, i>>)

\* a priority step that looks at the importance words first
extractPriorityNLP_mutant(text) ==
  IF includes(text, "important") \/ includes(text, "high priority") THEN "P2"
  ELSE IF FirstPos(PTokenAt, text, 1) > 0
       THEN "P" \o CharAt(text, FirstPos(PTokenAt, text, 1) + 1)
  ELSE IF includes(text, "urgent") \/ includes(text, "asap")
            \/ includes(text, "emergency") THEN "P1"
  ELSE IF includes(text, "low priority") \/ includes(text, "whenever") THEN "P4"
  ELSE "P3"

extractPriorityNLP(text) ==
  LET pm == FirstPos(PTokenAt, text, 1)
  IN IF pm > 0 THEN "P" \o CharAt(text, pm + 1)
     ELSE IF includes(text, "urgent") \/ includes(text, "asap")
               \/ includes(text, "emergency") THEN "P1"
     ELSE IF includes(text, "important") \/ includes(text, "high priority") THEN "P2"
     ELSE IF includes(text, "low priority") \/ includes(text, "whenever") THEN "P4"
     ELSE "P3"

extractPriorityNLP_(text) == Call("extractPriorityNLP", <<text>>)

priorityTextOf(priority) ==
  IF priority = "P1" THEN "High"
  ELSE IF priority = "P2" THEN "Medium-High"
  ELSE IF priority = "P3" THEN "Medium"
  ELSE "Low"

priorityReasonOf(priority) ==
  IF priority = "P1"
  THEN "Inferred as high priority due to specific deadline and urgency"
  ELSE IF priority = "P2"
  THEN "Inferred as medium-high priority based on task importance"
  ELSE "Inferred based on task description"

\* the local Date that parseNaturalLanguage formats and returns
resolveDueDate(text, now) ==
  LET time == extractTime_(text)
  IN ensureFutureDate_(setHours(extractDate_(text, now), time.hour, time.minute, 0), now)

resolveDueDate_(text, now) == Call("resolveDueDate", <<text, now>>)

\* The optional fields of the ParsedTask interface (dueDateFormatted?,
\* dueTimeFormatted?, priorityText?, priorityReason?) are optional values.
parseNaturalLanguage(inputText, now, tz) ==
  LET text     == toLowerCase(inputText)
      title    == extractTitle_(inputText)
      assignee == extractAssigneeNLP_(inputText)
      time     == extractTime_(text)
      dueDate  == resolveDueDate_(text, now)
      priority == extractPriorityNLP_(text)
      fmt      == formatDateForDisplay_(dueDate, time.timeSpecified)
  IN [title            |-> IF trim(title) # "" THEN trim(title) ELSE trim(inputText),
      assignee         |-> assignee,
      dueDate          |-> toISOString_(dueDate, tz),
      priority         |-> priority,
      dueDateFormatted |-> Some(fmt.formattedDate),
      dueTimeFormatted |-> fmt.formattedTime,
      timeSpecified    |-> time.timeSpecified,
      priorityText     |-> Some(priorityTextOf(priority)),
      priorityReason   |-> Some(priorityReasonOf(priority))]

parseNaturalLanguage_(inputText, now, tz) == Call("parseNaturalLanguage", <<inputText, now, tz>>)

(***************************************************************************)
(* src/src/utils/meetingMinutesParser.ts                                   *)
(***************************************************************************)

\* end of the longest run of characters outside class C that starts at i
RunEndNot(s, i, C) ==
  LET P(t, j) == SubSeq(t, j, j) \in C
      stop == FirstPosIn(P, s, i, Len(s))
  IN IF i > Len(s) THEN i - 1
     ELSE IF stop = 0 THEN Len(s)
     ELSE stop - 1

RunEndNot_(s, i, C) == Call("RunEndNot", <<s, i, C>>)

\* s.replace(/.../g, ...): E(s, i) is the end of the match that starts at
\* i (0 when there is none), R(s, i, e) the text that replaces it
RECURSIVE ReplaceAll(_, _, _, _)
ReplaceAll(E(_, _), R(_, _, _), s, i) ==
  LET P(t, j) == E(t, j) > 0
      m == FirstPosIn(P, s, i, Len(s))
  IN IF m = 0 THEN From(s, i)
     ELSE Sub(s, i, m - 1) \o R(s, m, E(s, m)) \o ReplaceAll(E, R, s, E(s, m) + 1)

\* s.replace(/.../, ...) without the g flag: the leftmost match only
ReplaceFirst(E(_, _), R(_, _, _), s) ==
  LET P(t, i) == E(t, i) > 0
      i0 == FirstPos(P, s, 1)
  IN IF i0 = 0 THEN s
     ELSE Sub(s, 1, i0 - 1) \o R(s, i0, E(s, i0)) \o From(s, E(s, i0) + 1)

\* /\[([^\]]+)\]:\s*/g  and  /\(([^\)]+)\):\s*/g, for the bracket pair (o, c)
SpeakerEnd(s, i, o, c) ==
  LET ce == RunEndNot_(s, i + 1, {c})
  IN IF CharAt(s, i) = o /\ ce > i /\ CharAt(s, ce + 1) = c /\ CharAt(s, ce + 2) = ":"
     THEN RunEnd_(s, ce + 3, SpaceChars)
     ELSE 0

SpeakerEnd_(s, i, o, c) == Call("SpeakerEnd", <<s, i, o, c>>)

SpeakerText(s, i, c) == Sub(s, i + 1, RunEndNot_(s, i + 1, {c})) \o ": "

SpeakerText_(s, i, c) == Call("SpeakerText", <<s, i, c>>)

\* /\[\d{1,2}:\d{2}(:\d{2})?\]/g  and  /\(\d{1,2}:\d{2}(:\d{2})?\)/g
TimestampEnd(s, i, o, c) ==
  LET de == IF CharAt(s, i + 2) \in DigitChars THEN i + 2 ELSE i + 1
      me == de + 3
      se == IF /\ CharAt(s, me + 1) = ":"
               /\ CharAt(s, me + 2) \in DigitChars
               /\ CharAt(s, me + 3) \in DigitChars
            THEN me + 3 ELSE me
  IN IF /\ CharAt(s, i) = o
        /\ CharAt(s, i + 1) \in DigitChars
        /\ CharAt(s, de + 1) = ":"
        /\ CharAt(s, de + 2) \in DigitChars
        /\ CharAt(s, de + 3) \in DigitChars
        /\ CharAt(s, se + 1) = c
     THEN se + 1
     ELSE 0

TimestampEnd_(s, i, o, c) == Call("TimestampEnd", <<s, i, o, c>>)

\* /\n([A-Za-z]+):\s*/g
TurnEnd(s, i) ==
  LET ne == RunEnd_(s, i + 1, LetterChars)
  IN IF CharAt(s, i) = "\n" /\ ne > i /\ CharAt(s, ne + 1) = ":"
     THEN RunEnd_(s, ne + 2, SpaceChars)
     ELSE 0

TurnEnd_(s, i) == Call("TurnEnd", <<s, i>>)

\* /\.{2,}/g
DotsEnd(s, i) ==
  LET e == RunEnd_(s, i, {"."})
  IN IF e > i THEN e ELSE 0

DotsEnd_(s, i) == Call("DotsEnd", <<s, i>>)

\* /([.!?])([A-Za-z])/g
PunctLetterEnd(s, i) ==
  IF CharAt(s, i) \in {".", "!", "?"} /\ CharAt(s, i + 1) \in LetterChars
  THEN i + 1 ELSE 0

PunctLetterEnd_(s, i) == Call("PunctLetterEnd", <<s, i>>)

preprocessText(text) ==
  LET E1(s, i) == SpeakerEnd_(s, i, "[", "]")
      R1(s, i, e) == SpeakerText_(s, i, "]")
      E2(s, i) == SpeakerEnd_(s, i, "(", ")")
      R2(s, i, e) == SpeakerText_(s, i, ")")
      E3(s, i) == TimestampEnd_(s, i, "[", "]")
      E4(s, i) == TimestampEnd_(s, i, "(", ")")
      RSpace(s, i, e) == " "
      R5(s, i, e) == ". " \o Sub(s, i + 1, RunEnd_(s, i + 1, LetterChars)) \o ": "
      RDot(s, i, e) == "."
      R7(s, i, e) == SubSeq(s, i, i) \o " " \o SubSeq(s, e, e)
      p1 == ReplaceAll(E1, R1, text, 1)
      p2 == ReplaceAll(E2, R2, p1, 1)
      p3 == ReplaceAll(E3, RSpace, p2, 1)
      p4 == ReplaceAll(E4, RSpace, p3, 1)
      p5 == ReplaceAll(TurnEnd, R5, p4, 1)
      p6 == ReplaceAll(DotsEnd, RDot, p5, 1)
  IN ReplaceAll(PunctLetterEnd, R7, p6, 1)

preprocessText_(text) == Call("preprocessText", <<text>>)

\* /[.!?]\s+/ at i: the end of the separator, 0 when there is none
SeparatorEnd(s, i) ==
  LET e == RunEnd_(s, i + 1, SpaceChars)
  IN IF CharAt(s, i) \in {".", "!", "?"} /\ e > i THEN e ELSE 0

SeparatorEnd_(s, i) == Call("SeparatorEnd", <<s, i>>)

\* s.split(/[.!?]\s+/): from is where the current piece starts
RECURSIVE SplitFrom(_, _)
SplitFrom(s, from) ==
  LET P(t, j) == SeparatorEnd_(t, j) > 0
      m == FirstPosIn(P, s, from, Len(s))
  IN IF m = 0 THEN <<From(s, from)>>
     ELSE <<Sub(s, from, m - 1)>> \o SplitFrom(s, SeparatorEnd_(s, m) + 1)

SplitFrom_(s, from) == Call("SplitFrom", <<s, from>>)

splitSegments(s) == SplitFrom_(s, 1)

taskIndicators ==
  <<"take", "do", "finish", "complete", "handle", "prepare", "create",
    "make", "write", "review", "check", "update", "send", "share",
    "follow up", "follow-up", "followup", "get back", "call", "email",
    "schedule", "organize", "arrange", "book", "reserve", "confirm",
    "please", "need to", "should", "must", "will", "would", "could",
    "assigned", "responsible", "in charge", "work on", "develop">>

timeIndicators ==
  <<"by", "before", "after", "tomorrow", "today", "tonight", "next",
    "monday", "tuesday", "wednesday", "thursday", "friday", "saturday", "sunday",
    "week", "month", "morning", "afternoon", "evening", "noon", "day",
    "deadline", "due", "eod", "eow", "end of", "cob", "asap">>

\* list.some(w => s.includes(w))
includesAny(s, list) == \E k \in 1..Len(list) : includes(s, list[k])

includesAny_(s, list) == Call("includesAny", <<s, list>>)

\* /\b[A-Z][a-z]+\b/ at i
CapWordAt(s, i) ==
  LET e == RunEnd_(s, i + 1, LowerChars)
  IN /\ WordBoundary_(s, i)
     /\ CharAt(s, i) \in UpperChars
     /\ e > i
     /\ WordBoundary_(s, e + 1)

CapWordAt_(s, i) == Call("CapWordAt", <<s, i>>)

\* /\b(w1|w2|...)\b/i at i, for words none of which is a prefix of another
WholeWordAt(s, i, ws) ==
  LET w == AltAtI_(s, i, ws)
  IN WordBoundary_(s, i) /\ w # "" /\ WordBoundary_(s, i + Len(w))

WholeWordAt_(s, i, ws) == Call("WholeWordAt", <<s, i, ws>>)

PronounAt(s, i) == WholeWordAt_(s, i, <<"you", "he", "she", "they", "we">>)

\* an acceptance that does not ask for a task indicator
containsTaskAssignment_mutant(sentence) ==
  \/ includesAny_(toLowerCase(sentence), timeIndicators)
  \/ FirstPos(CapWordAt, sentence, 1) > 0

containsTaskAssignment(sentence) ==
  LET lower == toLowerCase(sentence)
      hasTaskIndicator == includesAny_(lower, taskIndicators)
      hasTimeIndicator == includesAny_(lower, timeIndicators)
      hasCapWord == FirstPos(CapWordAt, sentence, 1) > 0
      hasAssigneeIndicator ==
        \/ includes(sentence, ":")
        \/ FirstPos(PronounAt, sentence, 1) > 0
        \/ hasCapWord
        \/ includes(lower, "assigned to")
  IN IF hasCapWord /\ hasTaskIndicator THEN TRUE
     ELSE hasTaskIndicator /\ (hasTimeIndicator \/ hasAssigneeIndicator)

containsTaskAssignment_(sentence) == Call("containsTaskAssignment", <<sentence>>)

LineTerminators == {"\n", "\r"}

\* /^([A-Za-z\s]+):\s*(.+)$/i : the end of group 1, 0 when there is no match.
\* After the colon \s* may swallow line breaks, (.+)$ needs at least one
\* character and none of them a line break.
ExplicitAssigneeEnd(s) ==
  LET e    == RunEnd_(s, 1, LetterChars \cup SpaceChars)
      rest == From(s, e + 2)
      ws   == RunEnd_(rest, 1, SpaceChars)
      flat(t) == \A k \in 1..Len(t) : SubSeq(t, k, k) \notin LineTerminators
  IN IF e >= 1 /\ CharAt(s, e + 1) = ":"
        /\ \E j \in 0..ws : From(rest, j + 1) # "" /\ flat(From(rest, j + 1))
     THEN e ELSE 0

ExplicitAssigneeEnd_(s) == Call("ExplicitAssigneeEnd", <<s>>)

\* /^([A-Z][a-z]+)\s+(w1|w2|...)/i : the end of group 1 (with the i flag
\* both classes are the letters), 0 when there is no match
NameThenEnd(s, i, ws, bounded) ==
  LET e  == RunEnd_(s, i, LetterChars)
      sp == RunEnd_(s, e + 1, SpaceChars)
      w  == AltAtI_(s, sp + 1, ws)
  IN IF e >= i + 1 /\ sp > e /\ w # ""
        /\ (bounded => WordBoundary_(s, sp + 1 + Len(w)))
     THEN e ELSE 0

NameThenEnd_(s, i, ws, bounded) == Call("NameThenEnd", <<s, i, ws, bounded>>)

nameFirstWords == <<"please", "will", "should", "can", "could", "would", "must", "need to">>

assigneeWords == <<"to", "will", "should", "can", "please">>

\* /\b([A-Z][a-z]+)\s+(to|will|should|can|please)\b/i at i
AssigneeWordAt(s, i) ==
  WordBoundary_(s, i) /\ NameThenEnd_(s, i, assigneeWords, TRUE) > 0

AssigneeWordAt_(s, i) == Call("AssigneeWordAt", <<s, i>>)

actionWords ==
  <<"will", "should", "to", "needs to", "has to", "must", "can you",
    "could you", "would you", "please">>

\* /(\w+)\s+(will|should|to|...|please)/i at i: the end of group 1
WordThenActionEnd(s, i) ==
  LET e  == RunEnd_(s, i, WordChars)
      sp == RunEnd_(s, e + 1, SpaceChars)
  IN IF e >= i /\ sp > e /\ AltAtI_(s, sp + 1, actionWords) # "" THEN e ELSE 0

WordThenActionEnd_(s, i) == Call("WordThenActionEnd", <<s, i>>)

WordThenActionAt(s, i) == WordThenActionEnd_(s, i) > 0

assignedToWords == <<"assigned to", "give to", "for", "goes to">>

\* /(assigned to|give to|for|goes to)\s+(\w+)/i at i
AssignedToAt(s, i) ==
  LET w  == AltAtI_(s, i, assignedToWords)
      sp == RunEnd_(s, i + Len(w), SpaceChars)
  IN w # "" /\ sp >= i + Len(w) /\ CharAt(s, sp + 1) \in WordChars

AssignedToAt_(s, i) == Call("AssignedToAt", <<s, i>>)

possessiveWords == <<"task", "job", "responsibility", "assignment">>

\* /(\w+)'s\s+(task|job|responsibility|assignment)/i at i: the end of group 1
PossessiveEnd(s, i) ==
  LET e  == RunEnd_(s, i, WordChars)
      sp == RunEnd_(s, e + 3, SpaceChars)
  IN IF e >= i /\ CharAt(s, e + 1) = "'" /\ AtI(s, e + 2, "s")
        /\ sp >= e + 3 /\ AltAtI_(s, sp + 1, possessiveWords) # ""
     THEN e ELSE 0

PossessiveEnd_(s, i) == Call("PossessiveEnd", <<s, i>>)

PossessiveAt(s, i) == PossessiveEnd_(s, i) > 0

\* match[1].charAt(0).toUpperCase() + match[1].slice(1)
capitalize(w) ==
  IF w = "" THEN ""
  ELSE (IF Head(w) \in LowerChars THEN UpperOf[Head(w)] ELSE Head(w)) \o Tail(w)

capitalize_(w) == Call("capitalize", <<w>>)

extractAssignee(sentence) ==
  LET explicitEnd == ExplicitAssigneeEnd_(sentence)
      nameFirst   == NameThenEnd_(sentence, 1, nameFirstWords, FALSE)
      nameYou     == NameThenEnd_(sentence, 1, <<"you">>, TRUE)
      am          == FirstPos(AssigneeWordAt, sentence, 1)
      wa          == FirstPos(WordThenActionAt, sentence, 1)
      at          == FirstPos(AssignedToAt, sentence, 1)
      po          == FirstPos(PossessiveAt, sentence, 1)
  IN IF explicitEnd > 0 THEN trim(Sub(sentence, 1, explicitEnd))
     ELSE IF nameFirst > 0 THEN trim(Sub(sentence, 1, nameFirst))
     ELSE IF nameYou > 0 THEN trim(Sub(sentence, 1, nameYou))
     ELSE IF am > 0
          THEN trim(Sub(sentence, am, NameThenEnd_(sentence, am, assigneeWords, TRUE)))
     ELSE IF wa > 0 THEN capitalize_(Sub(sentence, wa, WordThenActionEnd_(sentence, wa)))
     ELSE IF at > 0
          THEN capitalize_(Sub(sentence, at,
                              at + Len(AltAtI_(sentence, at, assignedToWords)) - 1))
     ELSE IF po > 0 THEN capitalize_(Sub(sentence, po, PossessiveEnd_(sentence, po)))
     ELSE ""

extractAssignee_(sentence) == Call("extractAssignee", <<sentence>>)

prefixesToRemove ==
  <<"please", "can you", "could you", "will you", "would you",
    "you need to", "you should", "you must", "you will", "you have to",
    "need to", "should", "must", "will", "have to">>

\* the loop over prefixesToRemove: every prefix is tried once, in order, on
\* what the earlier ones left
RECURSIVE stripPrefixes(_, _)
stripPrefixes(description, prefixes) ==
  IF prefixes = <<>> THEN description
  ELSE IF startsWith_(toLowerCase(description), Head(prefixes))
       THEN stripPrefixes(trim(From(description, Len(Head(prefixes)) + 1)),
                          Tail(prefixes))
  ELSE stripPrefixes(description, Tail(prefixes))

stripPrefixes_(description, prefixes) == Call("stripPrefixes", <<description, prefixes>>)

\* /\b<kw>\s+([^,\.]+)/i at i: the end of the match, 0 when there is none.
\* \s+ gives a blank back to [^,\.]+ when nothing else follows it.
KeywordPhraseEnd(s, i, kw) ==
  LET k == i + Len(kw)
      e == RunEndNot_(s, k, {",", "."})
  IN IF WordBoundary_(s, i) /\ AtI(s, i, kw) /\ CharAt(s, k) \in SpaceChars /\ e > k
     THEN e ELSE 0

KeywordPhraseEnd_(s, i, kw) == Call("KeywordPhraseEnd", <<s, i, kw>>)

\* /\bon\s+(monday|...|sunday)/i at i: the end of the match
OnWeekdayEnd(s, i) ==
  LET sp == RunEnd_(s, i + 2, SpaceChars)
      w  == AltAtI_(s, sp + 1, weekdayAlternation)
  IN IF WordBoundary_(s, i) /\ AtI(s, i, "on") /\ sp >= i + 2 /\ w # ""
     THEN sp + Len(w) ELSE 0

OnWeekdayEnd_(s, i) == Call("OnWeekdayEnd", <<s, i>>)

\* /\s+/g
SpacesEnd(s, i) ==
  LET e == RunEnd_(s, i, SpaceChars)
  IN IF e >= i THEN e ELSE 0

SpacesEnd_(s, i) == Call("SpacesEnd", <<s, i>>)

extractTaskDescription(segment, assignee) ==
  LET Gone(s, i, e) == ""
      Blank(s, i, e) == " "
      EBy(s, i) == KeywordPhraseEnd_(s, i, "by")
      EBefore(s, i) == KeywordPhraseEnd_(s, i, "before")
      EDue(s, i) == KeywordPhraseEnd_(s, i, "due")
      EDeadline(s, i) == KeywordPhraseEnd_(s, i, "deadline")
      d0 == IF assignee # "" /\ startsWith_(segment, assignee)
            THEN LET d == trim(From(segment, Len(assignee) + 1))
                 IN IF startsWith_(d, ":") THEN trim(From(d, 2)) ELSE d
            ELSE segment
      d1 == stripPrefixes_(d0, prefixesToRemove)
      d2 == ReplaceFirst(EBy, Gone, d1)
      d3 == ReplaceFirst(EBefore, Gone, d2)
      d4 == ReplaceFirst(EDue, Gone, d3)
      d5 == ReplaceFirst(EDeadline, Gone, d4)
      d6 == ReplaceFirst(OnWeekdayEnd, Gone, d5)
  IN trim(ReplaceAll(SpacesEnd, Blank, d6, 1))

extractTaskDescription_(segment, assignee) == Call("extractTaskDescription", <<segment, assignee>>)

createStructuredSentence(taskDescription, assignee, dueDate, priority) ==
  taskDescription
    \o (IF assignee # "" THEN " assigned to " \o assignee ELSE "")
    \o (IF dueDate # "" THEN " by " \o dueDate ELSE "")
    \o (IF priority # "" THEN " with " \o priority \o " priority" ELSE "")

createStructuredSentence_(taskDescription, assignee, dueDate, priority) == Call("createStructuredSentence", <<taskDescription, assignee, dueDate, priority>>)

PriorityDigits == {"1", "2", "3", "4"}

\* /\b(p[1-4]|priority\s*[1-4]|high\s*priority|medium\s*priority|low\s*priority)\b/i
\* at i: the end of the match, 0 when there is none
PriorityMentionEnd(s, i) ==
  LET lead == AltAtI_(s, i, <<"high", "medium", "low">>)
      sp1  == RunEnd_(s, i + 8, SpaceChars)
      sp2  == RunEnd_(s, i + Len(lead), SpaceChars)
  IN IF ~WordBoundary_(s, i) THEN 0
     ELSE IF AtI(s, i, "p") /\ CharAt(s, i + 1) \in PriorityDigits
             /\ WordBoundary_(s, i + 2) THEN i + 1
     ELSE IF AtI(s, i, "priority") /\ CharAt(s, sp1 + 1) \in PriorityDigits
             /\ WordBoundary_(s, sp1 + 2) THEN sp1 + 1
     ELSE IF lead # "" /\ AtI(s, sp2 + 1, "priority")
             /\ WordBoundary_(s, sp2 + 9) THEN sp2 + 8
     ELSE 0

PriorityMentionEnd_(s, i) == Call("PriorityMentionEnd", <<s, i>>)

PriorityMentionAt(s, i) == PriorityMentionEnd_(s, i) > 0

urgentWords == <<"urgent", "critical", "asap", "immediately", "right away">>

importantWords == <<"important", "significant", "key", "major">>

UrgentAt(s, i) == WholeWordAt_(s, i, urgentWords)

ImportantAt(s, i) == WholeWordAt_(s, i, importantWords)

extractPriority(text) ==
  LET pm == FirstPos(PriorityMentionAt, text, 1)
      priority == IF pm > 0 THEN toLowerCase(Sub(text, pm, PriorityMentionEnd_(text, pm)))
                  ELSE ""
  IN IF pm > 0 /\ (includes(priority, "p1") \/ includes(priority, "priority 1")
                     \/ includes(priority, "high priority")) THEN "P1"
     ELSE IF pm > 0 /\ (includes(priority, "p2") \/ includes(priority, "priority 2"))
          THEN "P2"
     ELSE IF pm > 0 /\ (includes(priority, "p3") \/ includes(priority, "priority 3")
                          \/ includes(priority, "medium priority")) THEN "P3"
     ELSE IF pm > 0 /\ (includes(priority, "p4") \/ includes(priority, "priority 4")
                          \/ includes(priority, "low priority")) THEN "P4"
     ELSE IF FirstPos(UrgentAt, text, 1) > 0 THEN "P1"
     ELSE IF FirstPos(ImportantAt, text, 1) > 0 THEN "P2"
     ELSE "P3"

extractPriority_(text) == Call("extractPriority", <<text>>)

dayWords ==
  <<"today", "tomorrow", "tonight", "monday", "tuesday", "wednesday",
    "thursday", "friday", "saturday", "sunday">>

\* /\b<kw>\s+/i at i: the position after the blanks, 0 when there is no match
AfterKeyword(s, i, kw) ==
  LET sp == RunEnd_(s, i + Len(kw), SpaceChars)
  IN IF WordBoundary_(s, i) /\ AtI(s, i, kw) /\ sp >= i + Len(kw) THEN sp + 1 ELSE 0

AfterKeyword_(s, i, kw) == Call("AfterKeyword", <<s, i, kw>>)

\* /\bby\s+(\d{1,2}(am|pm|:\d{2}))/i at i: the end of group 1
ByTimeEnd(s, i) ==
  LET g  == AfterKeyword_(s, i, "by")
      de == IF CharAt(s, g + 1) \in DigitChars THEN g + 1 ELSE g
  IN IF g = 0 \/ CharAt(s, g) \notin DigitChars THEN 0
     ELSE IF AltAtI_(s, de + 1, <<"am", "pm">>) # "" THEN de + 2
     ELSE IF CharAt(s, de + 1) = ":" /\ CharAt(s, de + 2) \in DigitChars
             /\ CharAt(s, de + 3) \in DigitChars THEN de + 3
     ELSE 0

ByTimeEnd_(s, i) == Call("ByTimeEnd", <<s, i>>)

ByTimeAt(s, i) == ByTimeEnd_(s, i) > 0

\* /\bby\s+(\d{1,2}:\d{2}\s*(?:am|pm)?)/i at i: the end of group 1
ByClockEnd(s, i) ==
  LET g  == AfterKeyword_(s, i, "by")
      de == IF CharAt(s, g + 1) \in DigitChars THEN g + 1 ELSE g
      sp == RunEnd_(s, de + 4, SpaceChars)
  IN IF g = 0 \/ CharAt(s, g) \notin DigitChars THEN 0
     ELSE IF CharAt(s, de + 1) = ":" /\ CharAt(s, de + 2) \in DigitChars
             /\ CharAt(s, de + 3) \in DigitChars
          THEN IF AltAtI_(s, sp + 1, <<"am", "pm">>) # "" THEN sp + 2 ELSE sp
     ELSE 0

ByClockEnd_(s, i) == Call("ByClockEnd", <<s, i>>)

ByClockAt(s, i) == ByClockEnd_(s, i) > 0

\* /\b<kw>\s+(w1|w2|...)/i at i: the end of the match
KeywordWordEnd(s, i, kw, ws) ==
  LET g == AfterKeyword_(s, i, kw)
      w == AltAtI_(s, g, ws)
  IN IF g > 0 /\ w # "" THEN g + Len(w) - 1 ELSE 0

KeywordWordEnd_(s, i, kw, ws) == Call("KeywordWordEnd", <<s, i, kw, ws>>)

\* /\bby\s+(next\s+(?:monday|...|sunday))/i at i: the end of the match
ByNextEnd(s, i) ==
  LET g == AfterKeyword_(s, i, "by")
  IN IF g > 0 THEN KeywordWordEnd_(s, g, "next", weekdayAlternation) ELSE 0

ByNextEnd_(s, i) == Call("ByNextEnd", <<s, i>>)

\* /\b(this|next)\s+(week|month)/i at i: the end of the match
ThisNextEnd(s, i) ==
  LET kw == AltAtI_(s, i, <<"this", "next">>)
  IN IF kw = "" THEN 0 ELSE KeywordWordEnd_(s, i, kw, <<"week", "month">>)

ThisNextEnd_(s, i) == Call("ThisNextEnd", <<s, i>>)

deadlineAbbreviations == <<"eod", "eow", "eom", "cob", "asap">>

\* /\bend of (day|week|month)\b/i at i: the end of the match
EndOfEnd(s, i) ==
  LET w == AltAtI_(s, i + 7, <<"day", "week", "month">>)
  IN IF WordBoundary_(s, i) /\ AtI(s, i, "end of ") /\ w # ""
        /\ WordBoundary_(s, i + 7 + Len(w))
     THEN i + 6 + Len(w) ELSE 0

EndOfEnd_(s, i) == Call("EndOfEnd", <<s, i>>)

EndOfAt(s, i) == EndOfEnd_(s, i) > 0

extractDateString(text) ==
  LET ByDayAt(s, i)   == KeywordWordEnd_(s, i, "by", dayWords) > 0
      ByNextAt(s, i)  == ByNextEnd_(s, i) > 0
      DueDayAt(s, i)  == KeywordWordEnd_(s, i, "due", dayWords) > 0
      OnDayAt(s, i)   == KeywordWordEnd_(s, i, "on", weekdayAlternation) > 0
      ThisNextAt(s, i) == ThisNextEnd_(s, i) > 0
      AbbrAt(s, i)    == WholeWordAt_(s, i, deadlineAbbreviations)
      m1 == FirstPos(ByTimeAt, text, 1)
      m2 == FirstPos(ByClockAt, text, 1)
      m3 == FirstPos(ByDayAt, text, 1)
      m4 == FirstPos(ByNextAt, text, 1)
      m5 == FirstPos(DueDayAt, text, 1)
      m6 == FirstPos(OnDayAt, text, 1)
      m7 == FirstPos(ThisNextAt, text, 1)
      m8 == FirstPos(AbbrAt, text, 1)
      m9 == FirstPos(EndOfAt, text, 1)
  IN IF m1 > 0 THEN trim(Sub(text, AfterKeyword_(text, m1, "by"), ByTimeEnd_(text, m1)))
     ELSE IF m2 > 0
          THEN trim(Sub(text, AfterKeyword_(text, m2, "by"), ByClockEnd_(text, m2)))
     ELSE IF m3 > 0
          THEN trim(Sub(text, AfterKeyword_(text, m3, "by"),
                        KeywordWordEnd_(text, m3, "by", dayWords)))
     ELSE IF m4 > 0
          THEN trim(Sub(text, AfterKeyword_(text, m4, "by"), ByNextEnd_(text, m4)))
     ELSE IF m5 > 0
          THEN trim(Sub(text, AfterKeyword_(text, m5, "due"),
                        KeywordWordEnd_(text, m5, "due", dayWords)))
     ELSE IF m6 > 0
          THEN trim(Sub(text, AfterKeyword_(text, m6, "on"),
                        KeywordWordEnd_(text, m6, "on", weekdayAlternation)))
     ELSE IF m7 > 0 THEN trim(Sub(text, m7, ThisNextEnd_(text, m7)))
     ELSE IF m8 > 0
          THEN trim(Sub(text, m8, m8 + Len(AltAtI_(text, m8, deadlineAbbreviations)) - 1))
     ELSE IF m9 > 0 THEN trim(Sub(text, m9, EndOfEnd_(text, m9)))
     ELSE ""

extractDateString_(text) == Call("extractDateString", <<text>>)

\* /\b<words>\b/i.test(s)
hasWholeWord(s, ws) ==
  LET P(t, i) == WholeWordAt_(t, i, ws)
  IN FirstPos(P, s, 1) > 0

hasWholeWord_(s, ws) == Call("hasWholeWord", <<s, ws>>)

\* const daysToFriday = dayOfWeek <= 5 ? 5 - dayOfWeek : 6
daysToFriday(dayOfWeek) == IF dayOfWeek <= 5 THEN 5 - dayOfWeek ELSE 6

\* days of the week in extractDueDate: a target that is today or earlier
\* in the week goes to next week
daysToAdd(targetDay, currentDay) ==
  IF targetDay - currentDay <= 0 THEN targetDay - currentDay + 7
  ELSE targetDay - currentDay

\* last day of the current month, 5 PM
endOfMonth(now) == setHours(NewDate(getFullYear(now), getMonth(now) + 1, 0), 17, 0, 0)

endOfMonth_(now) == Call("endOfMonth", <<now>>)

endOfWeek(now) ==
  setHours(setDate_(now, getDate(now) + daysToFriday(getDay(now))), 17, 0, 0)

endOfWeek_(now) == Call("endOfWeek", <<now>>)

\* the if-chain of extractDueDate on the extracted date string
dueDateOfString(dateString, now) ==
  LET eo == FirstPos(EndOfAt, dateString, 1)
      period == AltAtI_(dateString, eo + 7, <<"day", "week", "month">>)
      AbbrAt(s, i) == WholeWordAt_(s, i, <<"eod", "eow", "eom", "cob">>)
      ab == FirstPos(AbbrAt, dateString, 1)
      abbr == AltAtI_(dateString, ab, <<"eod", "eow", "eom", "cob">>)
      DayAt(s, i) == WholeWordAt_(s, i, weekdayAlternation)
      dy == FirstPos(DayAt, dateString, 1)
      targetDay == SeqIndexOf(dayNames, AltAtI_(dateString, dy, weekdayAlternation))
  IN IF hasWholeWord_(dateString, <<"tomorrow">>) THEN setDate_(now, getDate(now) + 1)
     ELSE IF hasWholeWord_(dateString, <<"tonight">>) THEN setHours(now, 20, 0, 0)
     ELSE IF hasWholeWord_(dateString, <<"today">>) THEN now
     ELSE IF hasWholeWord_(dateString, <<"next week">>) THEN setDate_(now, getDate(now) + 7)
     ELSE IF hasWholeWord_(dateString, <<"this week">>)
          THEN setDate_(now, getDate(now) + daysToFriday(getDay(now)))
     ELSE IF eo > 0
          THEN IF period = "day" THEN setHours(now, 17, 0, 0)
               ELSE IF period = "week" THEN endOfWeek_(now)
               ELSE endOfMonth_(now)
     ELSE IF ab > 0
          THEN IF abbr = "eod" \/ abbr = "cob" THEN setHours(now, 17, 0, 0)
               ELSE IF abbr = "eow" THEN endOfWeek_(now)
               ELSE endOfMonth_(now)
     ELSE IF dy > 0
          THEN setDate_(now, getDate(now) + daysToAdd(targetDay, getDay(now)))
     ELSE now

dueDateOfString_(dateString, now) == Call("dueDateOfString", <<dateString, now>>)

\* /(\d{1,2}):?(\d{2})?\s*(am|pm)?/i at the digit position i
ClockGroups(s, i) ==
  LET de == IF CharAt(s, i + 1) \in DigitChars THEN i + 1 ELSE i
      ce == IF CharAt(s, de + 1) = ":" THEN de + 1 ELSE de
      hasMin == CharAt(s, ce + 1) \in DigitChars /\ CharAt(s, ce + 2) \in DigitChars
      me == IF hasMin THEN ce + 2 ELSE ce
  IN [hours   |-> Sub(s, i, de),
      minutes |-> IF hasMin THEN Sub(s, ce + 1, ce + 2) ELSE "",
      period  |-> AmPmAfter(s, me)]

ClockGroups_(s, i) == Call("ClockGroups", <<s, i>>)

\* the time step of extractDueDate: hours and minutes are not validated
applyClock(dueDate, dateString) ==
  LET tm == FirstPos(TimeBareAt, dateString, 1)
      g  == ClockGroups_(dateString, tm)
      h  == parseInt_(g.hours)
      hours == IF g.period = "pm" /\ h < 12 THEN h + 12
               ELSE IF g.period = "am" /\ h = 12 THEN 0
               ELSE h
      minutes == IF g.minutes # "" THEN parseInt_(g.minutes) ELSE 0
  IN IF tm > 0 THEN setHours(dueDate, hours, minutes, 0) ELSE dueDate

applyClock_(dueDate, dateString) == Call("applyClock", <<dueDate, dateString>>)

\* the local Date that extractDueDate computes; only meaningful when the
\* segment has a date string
dueDateOfSegment(text, now) ==
  applyClock_(dueDateOfString_(extractDateString_(text), now), extractDateString_(text))

dueDateOfSegment_(text, now) == Call("dueDateOfSegment", <<text, now>>)

extractDueDate(text, now, tz) ==
  IF extractDateString_(text) = "" THEN ""
  ELSE toISOString_(dueDateOfSegment_(text, now), tz)

extractDueDate_(text, now, tz) == Call("extractDueDate", <<text, now, tz>>)

\* the body of the loop of parseMultipleTasks for one accepted segment
parseSegment(segment, now, tz) ==
  LET assignee == extractAssignee_(segment)
      taskDescription == extractTaskDescription_(segment, assignee)
      dueDate == extractDueDate_(segment, now, tz)
      priority == extractPriority_(segment)
      structuredSentence ==
        createStructuredSentence_(taskDescription, assignee, dueDate, priority)
      parsedTask == parseNaturalLanguage_(structuredSentence, now, tz)
  IN IF assignee # "" /\ parsedTask.assignee = ""
     THEN [parsedTask EXCEPT !.assignee = assignee]
     ELSE parsedTask

parseSegment_(segment, now, tz) == Call("parseSegment", <<segment, now, tz>>)

RECURSIVE parseSegments(_, _, _)
parseSegments(segments, now, tz) ==
  IF segments = <<>> THEN <<>>
  ELSE LET segment == Head(segments)
           rest == parseSegments(Tail(segments), now, tz)
       IN IF trim(segment) = "" THEN rest
          ELSE IF ~containsTaskAssignment_(segment) THEN rest
          ELSE LET parsedTask == parseSegment_(segment, now, tz)
               IN IF parsedTask.title # "" THEN <<parsedTask>> \o rest ELSE rest

parseSegments_(segments, now, tz) == Call("parseSegments", <<segments, now, tz>>)

\* a parser that makes a task of every segment, blank or not
parseMultipleTasks_mutant(text, now, tz) ==
  LET segments == splitSegments(preprocessText_(text))
  IN [i \in 1..Len(segments) |-> parseSegment_(segments[i], now, tz)]

parseMultipleTasks(text, now, tz) ==
  parseSegments_(splitSegments(preprocessText_(text)), now, tz)

parseMultipleTasks_(text, now, tz) == Call("parseMultipleTasks", <<text, now, tz>>)

(***************************************************************************)
(* openaiService: the adapter of the remote language model.  What the      *)
(* remote service does is not in the program: a call of                    *)
(* chat.completions.create ends in one of the Completions below.           *)
(***************************************************************************)

\* a JavaScript value read from the reply is truthy: present and not ''
Truthy(o) == o # Null /\ o # Some("")

\* o || d
OrElse(o, d) == IF Truthy(o) THEN o[1] ELSE d

\* the two ways an async method ends
Return(v) == [ok |-> TRUE, value |-> v]

Throw(m) == [ok |-> FALSE, message |-> m]

\* getApiKey(): the environment variable VITE_OPENAI_API_KEY, or null
getApiKey(env) == IF Truthy(env) THEN env ELSE Null

\* new OpenAIService(apiKey): the client exists exactly when a key is found
OpenAIService(givenKey, env) ==
  LET key == IF Truthy(givenKey) THEN givenKey ELSE getApiKey(env)
  IN [openai |-> Truthy(key)]

\* the message of the SyntaxError of JSON.parse
SyntaxErrorMessage == "Unexpected token"

\* the message of the RangeError of toISOString() on an Invalid Date
RangeErrorMessage == "Invalid time value"

\* an adapter that returns whatever fields the reply has
parseTaskWithAI_mutant(service, completion, now, tz) ==
  IF completion.kind # "json" THEN Throw("No response from OpenAI")
  ELSE Return([title    |-> OrElse(completion.value.title, ""),
               assignee |-> OrElse(completion.value.assignee, ""),
               dueDate  |-> toISOString_(now, tz),
               priority |-> OrElse(completion.value.priority, "")])

\* parseTaskWithAI, given how the call of the remote model ends
parseTaskWithAI(service, completion, now, tz) ==
  IF ~service.openai THEN Throw("OpenAI API key not configured")
  ELSE IF completion.kind = "error" THEN Throw(completion.message)
  ELSE IF completion.kind = "empty" THEN Throw("No response from OpenAI")
  ELSE IF completion.kind = "text" THEN Throw(SyntaxErrorMessage)
  ELSE
    LET parsed == completion.value
    IN IF ~Truthy(parsed.title) \/ ~Truthy(parsed.dueDate)
            \/ ~Truthy(parsed.priority)
       THEN Throw("Invalid response structure from OpenAI")
       ELSE
         LET d == DateFromString_(parsed.dueDate[1], tz)
             dueDate == IF d.valid /\ Before(d.t, now)
                        THEN setFullYear_(d.t, getFullYear(d.t) + 1)
                        ELSE d.t
         IN IF ~d.valid THEN Throw(RangeErrorMessage)
            ELSE Return(
              [title            |-> parsed.title[1],
               assignee         |-> OrElse(parsed.assignee, ""),
               dueDate          |-> toISOString_(dueDate, tz),
               priority         |-> parsed.priority[1],
               dueDateFormatted |-> parsed.dueDateFormatted,
               dueTimeFormatted |-> parsed.dueTimeFormatted,
               timeSpecified    |-> Truthy(parsed.dueTimeFormatted),
               priorityText     |-> parsed.priorityText,
               priorityReason   |-> parsed.priorityReason])

parseTaskWithAI_(service, completion, now, tz) == Call("parseTaskWithAI", <<service, completion, now, tz>>)

\* the callback of parsed.tasks.map in parseMultipleTasksWithAI
mapRemoteTask(task, now, tz) ==
  LET d == IF task.dueDate = Null THEN InvalidDate
           ELSE DateFromString_(task.dueDate[1], tz)
      dueDate == IF d.valid /\ Before(d.t, now)
                 THEN setHours(setFullYear_(d.t, getFullYear(d.t) + 1),
                               getHours(d.t), getMinutes(d.t), getSeconds(d.t))
                 ELSE d.t
  IN IF ~d.valid THEN Throw(RangeErrorMessage)
     ELSE Return(
       [title            |-> OrElse(task.title, "Untitled Task"),
        assignee         |-> OrElse(task.assignee, ""),
        dueDate          |-> toISOString_(dueDate, tz),
        priority         |-> OrElse(task.priority, "P3"),
        dueDateFormatted |-> Some(OrElse(task.dueDateFormatted, "Tomorrow")),
        dueTimeFormatted |-> IF Truthy(task.dueTimeFormatted)
                             THEN task.dueTimeFormatted ELSE Null,
        timeSpecified    |-> Truthy(task.dueTimeFormatted),
        priorityText     |-> Some(OrElse(task.priorityText, "Medium")),
        context          |-> OrElse(task.context, "")])

mapRemoteTask_(task, now, tz) == Call("mapRemoteTask", <<task, now, tz>>)

\* parsed.tasks.map(...): the first element that throws ends the call
RECURSIVE mapRemoteTasks(_, _, _)
mapRemoteTasks(list, now, tz) ==
  IF list = <<>> THEN Return(<<>>)
  ELSE LET first == mapRemoteTask_(Head(list), now, tz)
           rest  == mapRemoteTasks(Tail(list), now, tz)
       IN IF ~first.ok THEN first
          ELSE IF ~rest.ok THEN rest
          ELSE Return(<<first.value>> \o rest.value)

mapRemoteTasks_(list, now, tz) == Call("mapRemoteTasks", <<list, now, tz>>)

\* parseMultipleTasksWithAI, given how the call of the remote model ends
parseMultipleTasksWithAI(service, env, completion, now, tz) ==
  IF ~service.openai /\ getApiKey(env) = Null
  THEN Throw("OpenAI API key not configured")
  ELSE IF completion.kind = "error" THEN Throw(completion.message)
  ELSE IF completion.kind = "empty" THEN Throw("No response from OpenAI")
  ELSE IF completion.kind = "text" THEN Throw("Invalid JSON response from OpenAI")
  ELSE IF completion.value.tasks = Null
  THEN Throw("Invalid response structure from OpenAI")
  ELSE mapRemoteTasks_(completion.value.tasks[1], now, tz)

parseMultipleTasksWithAI_(service, env, completion, now, tz) == Call("parseMultipleTasksWithAI", <<service, env, completion, now, tz>>)

(***************************************************************************)
(* Inputs of the parsers: reference instants, time zones, sentences and    *)
(* transcripts                                                             *)
(***************************************************************************)

\* the local Date y-m-d h:mi:s (m in 1..12)
DateAt(y, m, d, h, mi, sec) == setHours(NewDate(y, m - 1, d), h, mi, sec)

\* reference days: ends of months of 31, 30 and 29 days, the end of a
\* year, a leap day, the 20th of June and the days around it, a Sunday
NowDays ==
  { <<2025, 1, 31>>, <<2025, 6, 19>>, <<2025, 6, 20>>, <<2025, 6, 21>>,
    <<2025, 12, 31>>, <<2024, 2, 29>>, <<2026, 11, 1>>, <<2025, 4, 30>> }

\* reference times of day: morning, just after 5 PM, late evening
NowTimes == { <<8, 15, 0>>, <<17, 0, 30>>, <<23, 30, 0>> }

Nows ==
  { DateAt(d[1], d[2], d[3], t[1], t[2], t[3]) : d \in NowDays, t \in NowTimes }

\* offsets from UTC in minutes: UTC and India Standard Time
TimeZones == {0, 330}

\* the largest H of the sentences "... tomorrow <H>pm"
MaxPmHour == 11

\* sentences with 'tomorrow' and a time 'Hpm', in both orders
TomorrowCases ==
  { [text |-> "Call client Rajeev tomorrow " \o NumStr(H) \o "pm", H |-> H]
      : H \in 1..MaxPmHour }
  \cup
  { [text |-> "Send the invoice " \o NumStr(H) \o "pm tomorrow", H |-> H]
      : H \in 1..MaxPmHour }

\* (month, day) pairs named by the sentences with an absolute date,
\* every day valid for its month in every year
MonthDayPairs == { <<6, 20>>, <<2, 10>>, <<12, 31>>, <<1, 31>>, <<11, 5>> }

\* sentences that name a month and a day in the three absolute forms
AbsoluteCases ==
  { [text |-> "Pay rent " \o NumStr(md[2]) \o "th " \o MonthLong[md[1]],
     month |-> md[1], day |-> md[2]] : md \in MonthDayPairs }
  \cup
  { [text |-> "Renew passport " \o MonthLong[md[1]] \o " " \o NumStr(md[2]),
     month |-> md[1], day |-> md[2]] : md \in MonthDayPairs }
  \cup
  { [text |-> "Meet auditors " \o NumStr(md[1]) \o "/" \o NumStr(md[2]),
     month |-> md[1], day |-> md[2]] : md \in MonthDayPairs }

FixedSentences ==
  { "Call client Rajeev tomorrow 5pm",
    "Finish landing page for Aman by 11pm 20th June P1",
    "Buy milk",
    "Submit report today 9am",
    "Prepare slides with Priya Sharma next week",
    "Water the plants",
    "Ping Neha about urgent invoices friday" }

\* sentences without a stop word, a name of the list, 'for' or 'with',
\* a capitalized word, a digit, a date word or a priority word
PlainSentences == { "water the plants", "  clean the desk \n" }

\* blank inputs, and an input that starts with a stop word
EdgeSentences == { "", "   ", " for Bob" }

\* sentences with date expressions of two classes, and the class that is
\* to decide: "relative" with the number of days after today, "weekday"
\* with the getDay() number
PrecedenceCases ==
  { [text |-> "Call Raj tomorrow or friday", class |-> "relative", n |-> 1],
    [text |-> "Ship the build today 6/20", class |-> "relative", n |-> 0],
    [text |-> "Review deck monday 25th December", class |-> "weekday", n |-> 1] }

\* sentences whose only digits belong to a priority token or to the day
\* and month of an absolute date
NoTimeSentences ==
  { c.text : c \in AbsoluteCases } \cup { "Fix the login bug P1", "Tidy the backlog p4" }

Sentences ==
  FixedSentences \cup { c.text : c \in TomorrowCases } \cup NoTimeSentences
    \cup PlainSentences \cup EdgeSentences \cup { c.text : c \in PrecedenceCases }

\* the sentences '<Name> you <task> by <date phrase>' of a transcript
NameYouSentences ==
  << [name |-> "Aman",   text |-> "Aman you take the landing page by 10pm tomorrow"],
     [name |-> "Rajeev", text |-> "Rajeev you take care of client follow-up by Wednesday"],
     [name |-> "Sarah",  text |-> "Sarah you review the budget by eod"],
     [name |-> "Tom",    text |-> "Tom you send the minutes by Friday"] >>

\* the largest number of sentences of a generated transcript
MaxSentences == 3

\* the first n sentences joined by ". ", with a final period
RECURSIVE NameYouTranscript(_)
NameYouTranscript(n) ==
  IF n = 1 THEN NameYouSentences[1].text \o "."
  ELSE SubSeq(NameYouTranscript(n - 1), 1, Len(NameYouTranscript(n - 1)) - 1)
         \o ". " \o NameYouSentences[n].text \o "."

NameYouCount == IF MaxSentences <= Len(NameYouSentences) THEN MaxSentences
                ELSE Len(NameYouSentences)

FixedTranscripts ==
  { "",
    "  \n ",
    "The weather was nice today.",
    "[John]: please review the budget by Friday!\nSarah: I will send the report (10:30) by eod...ok.done" }

Transcripts == FixedTranscripts \cup { NameYouTranscript(n) : n \in 1..NameYouCount }

\* how many days before the reference day the dates given to
\* ensureFutureDate lie: today, yesterday, within a year, a year and a day,
\* and more than one and more than two years
DaysBefore == {0, 1, 200, 365, 366, 400, 800}

\* the dates given to ensureFutureDate, mornings and late evenings
DatesBefore(now) ==
  { MakeDate(now.day - k, secs) : k \in DaysBefore, secs \in {9 * 3600, 23 * 3600 + 2700} }

\* the seven days from Thursday 26 June 2025, late in the evening
WeekNows == { DateAt(2025, 6, 26 + k, 23, 30, 0) : k \in 0..6 }

\* the weekday names as written, with their getDay() numbers
WeekdayNames ==
  { <<"Sunday", 0>>, <<"monday", 1>>, <<"Tuesday", 2>>, <<"wednesday", 3>>,
    <<"Thursday", 4>>, <<"friday", 5>>, <<"Saturday", 6>> }

\* sentences of parseNaturalLanguage that name a weekday
WeekdayCases ==
  { [text |-> "Send report " \o w[1], day |-> w[2]] : w \in WeekdayNames }

\* segments of extractDueDate that name a weekday
DueWeekdayCases ==
  { [text |-> "Send the report by " \o w[1], day |-> w[2]] : w \in WeekdayNames }
  \cup
  { [text |-> "We meet on " \o w[1] \o " again", day |-> w[2]] : w \in WeekdayNames }

\* the parts given to createStructuredSentence: a description, a non-empty
\* assignee, a due date (none, or an ISO string) and a priority
StructuredParts ==
  { [taskDescription |-> D, assignee |-> X, dueDate |-> dd, priority |-> P]
      : D \in {"review the budget", "send the minutes"},
        X \in {"Aman", "Priya"},
        dd \in {"", "2025-06-21T11:30:00.000Z"},
        P \in {"P1", "P2", "P3", "P4"} }

\* segments of one sentence, each with what it contains: a task indicator
\* (as a substring, in any case), a capitalized word, a time indicator, an
\* assignee indicator (a colon, a pronoun or 'assigned to')
SegmentCases ==
  { [text |-> "send the report",
     task |-> TRUE, cap |-> FALSE, time |-> FALSE, assignee |-> FALSE],
    [text |-> "the budget is done",
     task |-> TRUE, cap |-> FALSE, time |-> FALSE, assignee |-> FALSE],
    [text |-> "send the report tomorrow",
     task |-> TRUE, cap |-> FALSE, time |-> TRUE, assignee |-> FALSE],
    [text |-> "Send the report",
     task |-> TRUE, cap |-> TRUE, time |-> FALSE, assignee |-> FALSE],
    [text |-> "you send the report",
     task |-> TRUE, cap |-> FALSE, time |-> FALSE, assignee |-> TRUE],
    [text |-> "raj: send the report",
     task |-> TRUE, cap |-> FALSE, time |-> FALSE, assignee |-> TRUE],
    [text |-> "we will see",
     task |-> TRUE, cap |-> FALSE, time |-> FALSE, assignee |-> TRUE],
    [text |-> "The weather was nice today",
     task |-> FALSE, cap |-> TRUE, time |-> TRUE, assignee |-> FALSE],
    [text |-> "John: they met on Monday",
     task |-> FALSE, cap |-> TRUE, time |-> TRUE, assignee |-> TRUE],
    [text |-> "nothing here",
     task |-> FALSE, cap |-> FALSE, time |-> FALSE, assignee |-> FALSE] }

\* segments of one sentence with a due-date phrase of extractDueDate
DueSegments ==
  { "Aman you take the landing page by tomorrow",
    "Priya you send the report by Friday",
    "Raj you call the client by 10pm",
    "Neha you close the books by eod" }

\* the Task handleAddAllTasks makes of a parsed task
TaskOfParsed(parsedTask, now, tz) ==
  LET d == DateFromString_(parsedTask.dueDate, tz)
      dueDate == IF d.valid THEN d.t ELSE setDate_(now, getDate(now) + 1)
      description ==
        IF "context" \in DOMAIN parsedTask /\ parsedTask.context # ""
        THEN parsedTask.title \o "\n\nContext: " \o parsedTask.context
        ELSE parsedTask.title
  IN [title    |-> description,
      assignee |-> parsedTask.assignee,
      dueDate  |-> toISOString_(dueDate, tz),
      priority |-> parsedTask.priority,
      status   |-> "pending"]

TaskOfParsed_(parsedTask, now, tz) == Call("TaskOfParsed", <<parsedTask, now, tz>>)

(***************************************************************************)
(* Replies of the remote model and texts typed into the components         *)
(***************************************************************************)

\* the values of the type of ParsedTask.priority
Priorities == {"P1", "P2", "P3", "P4"}

\* a credential
RemoteKey == "sk-test"

\* messages of the errors the client of the remote service raises: no
\* connection, a refused credential
ErrorMessages ==
  { "Connection error.",
    "401 Incorrect API key provided" }

\* the ISO string of 11 PM UTC, `days` days after the day of `now`
IsoAt(now, days) == toISOString_(MakeDate(now.day + days, 23 * 3600), 0)

IsoAt_(now, days) == Call("IsoAt", <<now, days>>)

\* the reply the prompt of parseTaskWithAI gives as its example
ExampleReply(now) ==
  [title            |-> Some("Finish landing page"),
   assignee         |-> Some("Aman"),
   dueDate          |-> Some(IsoAt_(now, 1)),
   dueDateFormatted |-> Some("20th June 2025"),
   dueTimeFormatted |-> Some("11:00 PM"),
   priority         |-> Some("P3"),
   priorityText     |-> Some("Medium"),
   priorityReason   |-> Some("Using default priority"),
   context          |-> Some("Ask about budget constraints")]

ExampleReply_(now) == Call("ExampleReply", <<now>>)

\* JSON objects the remote model may return for a task: the example, an
\* unknown or missing priority, a due date in the past, unreadable or
\* missing, and an object with none of the optional fields
RemoteObjects(now) ==
  LET g == ExampleReply_(now)
  IN { g,
       [g EXCEPT !.priority = Some("High")],
       [g EXCEPT !.priority = Null],
       [g EXCEPT !.dueDate = Some(IsoAt_(now, -1))],
       [g EXCEPT !.dueDate = Some("soon")],
       [g EXCEPT !.dueDate = Null],
       [g EXCEPT !.assignee = Null, !.dueDateFormatted = Null,
                 !.dueTimeFormatted = Null, !.priorityText = Null,
                 !.priorityReason = Null, !.context = Null,
                 !.title = Null] }

RemoteObjects_(now) == Call("RemoteObjects", <<now>>)

\* how a call of chat.completions.create ends without a usable body
FailedCompletions ==
  { [kind |-> "error", message |-> m] : m \in ErrorMessages }
    \cup { [kind |-> "empty"], [kind |-> "text"] }

\* how a call made by parseTaskWithAI ends
TaskCompletions(now) ==
  FailedCompletions
    \cup { [kind |-> "json", value |-> o] : o \in RemoteObjects_(now) }

TaskCompletions_(now) == Call("TaskCompletions", <<now>>)

\* how a call made by parseMultipleTasksWithAI ends
MeetingCompletions(now) ==
  FailedCompletions
    \cup { [kind |-> "json", value |-> [tasks |-> Null]],
           [kind |-> "json", value |-> [tasks |-> Some(<<>>)]] }
    \cup { [kind |-> "json", value |-> [tasks |-> Some(<<o>>)]]
             : o \in { ExampleReply_(now),
                       [ExampleReply_(now) EXCEPT !.priority = Some("High")],
                       [ExampleReply_(now) EXCEPT !.dueDate = Some("soon")] } }

MeetingCompletions_(now) == Call("MeetingCompletions", <<now>>)

\* how many days before the day of the call the due dates of the replies lie
RemoteDaysBefore == {1, 400, 800}

\* JSON objects given to the adapter: those above, due dates further in
\* the past, and a task without a time written as "dueTimeFormatted": ""
AdapterObjects(now) ==
  RemoteObjects_(now)
    \cup { [ExampleReply_(now) EXCEPT !.dueDate = Some(IsoAt_(now, 0 - k))]
            : k \in RemoteDaysBefore }
    \cup { [ExampleReply_(now) EXCEPT !.dueTimeFormatted = Some("")] }

AdapterObjects_(now) == Call("AdapterObjects", <<now>>)

\* how a call made by parseTaskWithAI ends
AdapterTaskCompletions(now) ==
  FailedCompletions
    \cup { [kind |-> "json", value |-> o] : o \in AdapterObjects_(now) }

AdapterTaskCompletions_(now) == Call("AdapterTaskCompletions", <<now>>)

\* how a call made by parseMultipleTasksWithAI ends: lists of two tasks,
\* the example and one other, in both orders
AdapterMeetingCompletions(now) ==
  FailedCompletions
    \cup { [kind |-> "json", value |-> [tasks |-> Null]],
           [kind |-> "json", value |-> [tasks |-> Some(<<>>)]] }
    \cup { [kind |-> "json", value |-> [tasks |-> Some(<<ExampleReply_(now), o>>)]]
             : o \in AdapterObjects_(now) }
    \cup { [kind |-> "json", value |-> [tasks |-> Some(<<o, ExampleReply_(now)>>)]]
             : o \in AdapterObjects_(now) }

AdapterMeetingCompletions_(now) == Call("AdapterMeetingCompletions", <<now>>)

\* the largest hour token of the sentences 'Ring at <H>[:MM][am|pm]',
\* besides 99
MaxHourToken == 25

\* sentences with an hour token, an optional minute and an optional suffix;
\* minute -1 stands for none
HourCases ==
  { [text |-> "Ring at " \o NumStr(H)
                \o (IF mm < 0 THEN "" ELSE ":" \o Pad(mm, 2)) \o suffix,
     H |-> H, minute |-> mm, suffix |-> suffix]
      : H \in (0..MaxHourToken) \cup {99},
        mm \in {-1, 0, 30, 75},
        suffix \in {"", "am", "pm"} }

\* sentences with priority signals of several classes, in both orders:
\* an explicit token (0 for none), an urgency word, an importance word and
\* a low-priority word
PriorityCases ==
  { [text |-> IF rev
              THEN "Fix bug" \o (IF l THEN " low priority" ELSE "")
                     \o (IF i THEN " important" ELSE "")
                     \o (IF u THEN " urgent" ELSE "")
                     \o (IF e = 0 THEN "" ELSE " P" \o NumStr(e))
              ELSE "Fix bug" \o (IF e = 0 THEN "" ELSE " P" \o NumStr(e))
                     \o (IF u THEN " urgent" ELSE "")
                     \o (IF i THEN " important" ELSE "")
                     \o (IF l THEN " low priority" ELSE ""),
     explicit |-> e, urgency |-> u, importance |-> i, low |-> l]
      : e \in {0, 2, 4}, u \in BOOLEAN, i \in BOOLEAN, l \in BOOLEAN,
        rev \in BOOLEAN }

\* sentences with one priority keyword and no explicit token, and the
\* level the keyword stands for
KeywordCases ==
  { [text |-> "Fix bug " \o k.word, word |-> k.word, level |-> k.level]
      : k \in { [word |-> "urgent", level |-> "P1"],
                [word |-> "asap", level |-> "P1"],
                [word |-> "emergency", level |-> "P1"],
                [word |-> "critical", level |-> "P1"],
                [word |-> "immediately", level |-> "P1"],
                [word |-> "important", level |-> "P2"],
                [word |-> "high priority", level |-> "P2"],
                [word |-> "significant", level |-> "P2"],
                [word |-> "key", level |-> "P2"],
                [word |-> "major", level |-> "P2"],
                [word |-> "low priority", level |-> "P4"],
                [word |-> "whenever", level |-> "P4"] } }

\* the functions called and the arguments of each
Modes ==
  {"single", "multi", "ensure", "weekday", "dueDate", "structured", "accepts",
   "segment", "remote", "remoteMulti", "hour", "priority", "keyword"}

InputsOf(m, now) ==
  CASE m = "single"  -> Sentences
    [] m = "multi"   -> Transcripts
    [] m = "ensure"  -> DatesBefore(now)
    [] m = "weekday" -> { c.text : c \in WeekdayCases }
    [] m = "dueDate" -> { c.text : c \in DueWeekdayCases }
    [] m = "structured" -> StructuredParts
    [] m = "accepts" -> { c.text : c \in SegmentCases }
    [] m = "segment" -> { c.text : c \in SegmentCases } \cup DueSegments
    [] m = "hour" -> { c.text : c \in HourCases }
    [] m = "priority" -> { c.text : c \in PriorityCases \cup KeywordCases }
    [] m = "keyword" -> { c.text : c \in PriorityCases \cup KeywordCases }
    [] m = "remote" ->
         { [givenKey |-> k, env |-> Null, completion |-> c]
             : k \in {Null, Some(RemoteKey)}, c \in AdapterTaskCompletions_(now) }
    [] m = "remoteMulti" ->
         { [givenKey |-> k, env |-> Null, completion |-> c]
             : k \in {Null, Some(RemoteKey)}, c \in AdapterMeetingCompletions_(now) }

InputsOf_(m, now) == Call("InputsOf", <<m, now>>)

\* the reference instants of the calls
ClocksOf(m) ==
  IF m \in {"weekday", "dueDate"} THEN WeekNows
  ELSE IF m \in {"structured", "accepts", "segment", "hour", "priority", "keyword"}
       THEN { DateAt(2025, 6, 20, 8, 15, 0) }
  ELSE IF m \in {"remote", "remoteMulti"}
       THEN { DateAt(2025, 6, 20, 8, 15, 0), DateAt(2024, 2, 29, 23, 30, 0) }
  ELSE Nows

ClocksOf_(m) == Call("ClocksOf", <<m>>)

\* texts typed into the field of TaskInput
TaskTexts == { "", "  ", "Buy milk", "Call Raj 5pm" }

\* transcripts typed into the field of MeetingMinutesParser
MeetingTexts == { "  \n ", "Tom you call Raj by 5pm." }

\* keys typed into the key field of MeetingMinutesParser
KeyTexts == { RemoteKey }

\* reference instants and time zones of the components
ComponentNows == { DateAt(2025, 6, 20, 8, 15, 0) }

ComponentZones == { 330 }

\* priorities chosen in the priority select of a parsed task
SelectedPriorities == { "P1" }

\* parseNaturalLanguage(text) for the texts and instants of TaskInput,
\* tabulated so that a text is parsed once
LocalTaskTable ==
  { [text |-> t, now |-> n, tz |-> z, task |-> parseNaturalLanguage_(t, n, z)]
      : t \in TaskTexts, n \in ComponentNows, z \in ComponentZones }

LocalTask(text, now, tz) ==
  (CHOOSE r \in LocalTaskTable : r.text = text /\ r.now = now /\ r.tz = tz).task

LocalTask_(text, now, tz) == Call("LocalTask", <<text, now, tz>>)

\* parseMultipleTasks(text) for the transcripts and instants of
\* MeetingMinutesParser, tabulated likewise
LocalTasksTable ==
  { [text |-> t, now |-> n, tz |-> z, tasks |-> parseMultipleTasks_(t, n, z)]
      : t \in MeetingTexts \cup {""}, n \in ComponentNows, z \in ComponentZones }

LocalTasks(text, now, tz) ==
  (CHOOSE r \in LocalTasksTable : r.text = text /\ r.now = now /\ r.tz = tz).tasks

LocalTasks_(text, now, tz) == Call("LocalTasks", <<text, now, tz>>)

\* the largest number of remote calls of TaskInput awaiting their reply
MaxInFlight == 2

\* the functions called by name; the arguments are evaluated before the
\* call, as the program does
Call(f, a) ==
  IF Len(a) = 0 THEN Null
  ELSE CASE f = "indexOf" -> indexOf(a[1], a[2])
         [] f = "startsWith" -> startsWith(a[1], a[2])
         [] f = "RunEnd" -> RunEnd(a[1], a[2], a[3])
         [] f = "WordBoundary" -> WordBoundary(a[1], a[2])
         [] f = "AltAtI" -> AltAtI(a[1], a[2], a[3])
         [] f = "trimStart" -> trimStart(a[1])
         [] f = "trimEnd" -> trimEnd(a[1])
         [] f = "parseInt" -> parseInt(a[1])
         [] f = "CivilFromDays" -> CivilFromDays(a[1])
         [] f = "setDate" -> setDate(a[1], a[2])
         [] f = "setMonth" -> setMonth(a[1], a[2])
         [] f = "setFullYear" -> setFullYear(a[1], a[2])
         [] f = "ToUTC" -> ToUTC(a[1], a[2])
         [] f = "ToLocal" -> ToLocal(a[1], a[2])
         [] f = "toISOString" -> toISOString(a[1], a[2])
         [] f = "IsISOString" -> IsISOString(a[1])
         [] f = "DateFromString" -> DateFromString(a[1], a[2])
         [] f = "toLocaleDateString" -> toLocaleDateString(a[1])
         [] f = "toLocaleTimeString" -> toLocaleTimeString(a[1])
         [] f = "ensureFutureDate" -> ensureFutureDate(a[1], a[2])
         [] f = "formatDateForDisplay" -> formatDateForDisplay(a[1], a[2])
         [] f = "TitleCut" -> TitleCut(a[1], a[2], a[3])
         [] f = "extractTitle" -> extractTitle(a[1])
         [] f = "ForWithEnd" -> ForWithEnd(a[1], a[2])
         [] f = "ForWithStrip" -> ForWithStrip(a[1])
         [] f = "CapNameEnd" -> CapNameEnd(a[1], a[2])
         [] f = "extractAssigneeNLP" -> extractAssigneeNLP(a[1])
         [] f = "HourMinAt" -> HourMinAt(a[1], a[2])
         [] f = "TimeAmPmAt" -> TimeAmPmAt(a[1], a[2])
         [] f = "TimeBareAt" -> TimeBareAt(a[1], a[2])
         [] f = "TimeGroups" -> TimeGroups(a[1], a[2])
         [] f = "matchTime" -> matchTime(a[1])
         [] f = "extractTime" -> extractTime(a[1])
         [] f = "SeqIndexFrom" -> SeqIndexFrom(a[1], a[2], a[3])
         [] f = "DayMonthGroups" -> DayMonthGroups(a[1], a[2])
         [] f = "MonthDayGroups" -> MonthDayGroups(a[1], a[2])
         [] f = "SlashGroups" -> SlashGroups(a[1], a[2])
         [] f = "monthDayDate" -> monthDayDate(a[1], a[2], a[3])
         [] f = "absoluteDate" -> absoluteDate(a[1], a[2])
         [] f = "extractDate" -> extractDate(a[1], a[2])
         [] f = "PTokenAt" -> PTokenAt(a[1], a[2])
         [] f = "extractPriorityNLP" -> extractPriorityNLP(a[1])
         [] f = "resolveDueDate" -> resolveDueDate(a[1], a[2])
         [] f = "parseNaturalLanguage" -> parseNaturalLanguage(a[1], a[2], a[3])
         [] f = "RunEndNot" -> RunEndNot(a[1], a[2], a[3])
         [] f = "SpeakerEnd" -> SpeakerEnd(a[1], a[2], a[3], a[4])
         [] f = "SpeakerText" -> SpeakerText(a[1], a[2], a[3])
         [] f = "TimestampEnd" -> TimestampEnd(a[1], a[2], a[3], a[4])
         [] f = "TurnEnd" -> TurnEnd(a[1], a[2])
         [] f = "DotsEnd" -> DotsEnd(a[1], a[2])
         [] f = "PunctLetterEnd" -> PunctLetterEnd(a[1], a[2])
         [] f = "preprocessText" -> preprocessText(a[1])
         [] f = "SeparatorEnd" -> SeparatorEnd(a[1], a[2])
         [] f = "SplitFrom" -> SplitFrom(a[1], a[2])
         [] f = "includesAny" -> includesAny(a[1], a[2])
         [] f = "CapWordAt" -> CapWordAt(a[1], a[2])
         [] f = "WholeWordAt" -> WholeWordAt(a[1], a[2], a[3])
         [] f = "containsTaskAssignment" -> containsTaskAssignment(a[1])
         [] f = "ExplicitAssigneeEnd" -> ExplicitAssigneeEnd(a[1])
         [] f = "NameThenEnd" -> NameThenEnd(a[1], a[2], a[3], a[4])
         [] f = "AssigneeWordAt" -> AssigneeWordAt(a[1], a[2])
         [] f = "WordThenActionEnd" -> WordThenActionEnd(a[1], a[2])
         [] f = "AssignedToAt" -> AssignedToAt(a[1], a[2])
         [] f = "PossessiveEnd" -> PossessiveEnd(a[1], a[2])
         [] f = "capitalize" -> capitalize(a[1])
         [] f = "extractAssignee" -> extractAssignee(a[1])
         [] f = "stripPrefixes" -> stripPrefixes(a[1], a[2])
         [] f = "KeywordPhraseEnd" -> KeywordPhraseEnd(a[1], a[2], a[3])
         [] f = "OnWeekdayEnd" -> OnWeekdayEnd(a[1], a[2])
         [] f = "SpacesEnd" -> SpacesEnd(a[1], a[2])
         [] f = "extractTaskDescription" -> extractTaskDescription(a[1], a[2])
         [] f = "createStructuredSentence" -> createStructuredSentence(a[1], a[2], a[3], a[4])
         [] f = "PriorityMentionEnd" -> PriorityMentionEnd(a[1], a[2])
         [] f = "extractPriority" -> extractPriority(a[1])
         [] f = "AfterKeyword" -> AfterKeyword(a[1], a[2], a[3])
         [] f = "ByTimeEnd" -> ByTimeEnd(a[1], a[2])
         [] f = "ByClockEnd" -> ByClockEnd(a[1], a[2])
         [] f = "KeywordWordEnd" -> KeywordWordEnd(a[1], a[2], a[3], a[4])
         [] f = "ByNextEnd" -> ByNextEnd(a[1], a[2])
         [] f = "ThisNextEnd" -> ThisNextEnd(a[1], a[2])
         [] f = "EndOfEnd" -> EndOfEnd(a[1], a[2])
         [] f = "extractDateString" -> extractDateString(a[1])
         [] f = "hasWholeWord" -> hasWholeWord(a[1], a[2])
         [] f = "endOfMonth" -> endOfMonth(a[1])
         [] f = "endOfWeek" -> endOfWeek(a[1])
         [] f = "dueDateOfString" -> dueDateOfString(a[1], a[2])
         [] f = "ClockGroups" -> ClockGroups(a[1], a[2])
         [] f = "applyClock" -> applyClock(a[1], a[2])
         [] f = "dueDateOfSegment" -> dueDateOfSegment(a[1], a[2])
         [] f = "extractDueDate" -> extractDueDate(a[1], a[2], a[3])
         [] f = "parseSegment" -> parseSegment(a[1], a[2], a[3])
         [] f = "parseSegments" -> parseSegments(a[1], a[2], a[3])
         [] f = "parseMultipleTasks" -> parseMultipleTasks(a[1], a[2], a[3])
         [] f = "parseTaskWithAI" -> parseTaskWithAI(a[1], a[2], a[3], a[4])
         [] f = "mapRemoteTask" -> mapRemoteTask(a[1], a[2], a[3])
         [] f = "mapRemoteTasks" -> mapRemoteTasks(a[1], a[2], a[3])
         [] f = "parseMultipleTasksWithAI" -> parseMultipleTasksWithAI(a[1], a[2], a[3], a[4], a[5])
         [] f = "TaskOfParsed" -> TaskOfParsed(a[1], a[2], a[3])
         [] f = "IsoAt" -> IsoAt(a[1], a[2])
         [] f = "ExampleReply" -> ExampleReply(a[1])
         [] f = "RemoteObjects" -> RemoteObjects(a[1])
         [] f = "TaskCompletions" -> TaskCompletions(a[1])
         [] f = "MeetingCompletions" -> MeetingCompletions(a[1])
         [] f = "AdapterObjects" -> AdapterObjects(a[1])
         [] f = "AdapterTaskCompletions" -> AdapterTaskCompletions(a[1])
         [] f = "AdapterMeetingCompletions" -> AdapterMeetingCompletions(a[1])
         [] f = "InputsOf" -> InputsOf(a[1], a[2])
         [] f = "ClocksOf" -> ClocksOf(a[1])
         [] f = "LocalTask" -> LocalTask(a[1], a[2], a[3])
         [] f = "LocalTasks" -> LocalTasks(a[1], a[2], a[3])

(***************************************************************************)
(* State                                                                   *)
(***************************************************************************)
VARIABLES
  input,     \* the text given to the parser; the text field of TaskInput
  clock,       \* the reference instant: what new Date() returns
  zone,        \* the time zone of the browser, minutes east of UTC
  mode,      \* the function called: "single" parseNaturalLanguage,
             \* "multi" parseMultipleTasks, "ensure" ensureFutureDate,
             \* "weekday" parseNaturalLanguage on the days of a week,
             \* "hour" parseNaturalLanguage on sentences with a time,
             \* "priority" parseNaturalLanguage on priority signals,
             \* "keyword" extractPriority on priority signals,
             \* "dueDate" extractDueDate, "structured"
             \* parseNaturalLanguage(createStructuredSentence(...)),
             \* "accepts" containsTaskAssignment, "segment"
             \* parseMultipleTasks on one segment, "remote"
             \* parseTaskWithAI, "remoteMulti" parseMultipleTasksWithAI
  pc,        \* "ready" before the call, "parsed" after it
  result,    \* the value returned by the call (the ParsedTask of
             \* parseNaturalLanguage), Null before
  tasks,     \* the list returned by parseMultipleTasks
  envKey,    \* the environment variable VITE_OPENAI_API_KEY, Null when unset
  apiKey,    \* TaskInput: the key in use or Null; MeetingMinutesParser:
             \* the text of the key field
  useAI,     \* the 'Use AI' toggle
  isProcessing,
  aiError,   \* the warning shown, Null when none
  created,   \* the tasks the last step handed to onAddTask / onAddTasks
  parsedData,       \* TaskInput: the preview, Null when none
  timer,            \* TaskInput: the 500 ms timeout of the effect is pending
  inflight,         \* TaskInput: the remote calls awaiting their reply, each
                    \* with the text its closure captured
  transcript,       \* MeetingMinutesParser: the text field
  parsedTasks,
  showParsedTasks,
  parsingMethod,
  parsingSuccess,
  showApiKeyInput,
  isVerifyingKey,
  keyVerified,
  apiConnected,
  connectionChecked,
  call,             \* handleParse awaiting the remote reply: the transcript
                    \* its closure captured, Null when none
  lastParse         \* the last parse request and what became of the remote
                    \* call, Null once the user edits the form

parserVars == <<mode, pc, result, tasks>>

sharedVars == <<envKey, apiKey, useAI, isProcessing, aiError, created>>

inputVars == <<parsedData, timer, inflight>>

meetingVars ==
  <<transcript, parsedTasks, showParsedTasks, parsingMethod, parsingSuccess,
    showApiKeyInput, isVerifyingKey, keyVerified, apiConnected,
    connectionChecked, call, lastParse>>

vars == <<input, clock, zone, parserVars, sharedVars, inputVars, meetingVars>>

\* !text.trim(): the text has only white space
IsBlank(text) == \A i \in 1..Len(text) : SubSeq(text, i, i) \in SpaceChars

\* no call of a parser is being observed
ParserIdle ==
  /\ mode = "none"
  /\ pc = "idle"
  /\ result = Null
  /\ tasks = <<>>

\* TaskInput as constructed
InputInitial ==
  /\ input = ""
  /\ parsedData = Null
  /\ timer = FALSE
  /\ inflight = <<>>

\* MeetingMinutesParser as constructed
MeetingInitial ==
  /\ transcript = ""
  /\ parsedTasks = <<>>
  /\ showParsedTasks = FALSE
  /\ parsingMethod = "gpt4"
  /\ parsingSuccess = FALSE
  /\ showApiKeyInput = FALSE
  /\ isVerifyingKey = FALSE
  /\ keyVerified = FALSE
  /\ apiConnected = FALSE
  /\ connectionChecked = FALSE
  /\ call = Null
  /\ lastParse = Null

\* the state of both components as constructed
SharedInitial ==
  /\ envKey = Null
  /\ apiKey = Null
  /\ useAI = TRUE
  /\ isProcessing = FALSE
  /\ aiError = Null
  /\ created = <<>>

(***************************************************************************)
(* Calls of the local parsers                                              *)
(***************************************************************************)

\* Init: a call about to be made, on any input at any reference instant
Init ==
  /\ mode \in Modes
  /\ clock \in ClocksOf_(mode)
  /\ zone \in TimeZones
  /\ input \in InputsOf_(mode, clock)
  /\ pc = "ready"
  /\ result = Null
  /\ tasks = <<>>
  /\ SharedInitial
  /\ parsedData = Null /\ timer = FALSE /\ inflight = <<>>
  /\ MeetingInitial

\* one call of parseNaturalLanguage(input)
ParseSingle ==
  /\ pc = "ready"
  /\ mode \in {"single", "weekday", "hour", "priority"}
  /\ result' = Some(parseNaturalLanguage_(input, clock, zone))
  /\ pc' = "parsed"
  /\ UNCHANGED <<input, clock, zone, mode, tasks, sharedVars, inputVars, meetingVars>>

\* one call of parseMultipleTasks(input)
ParseTranscript ==
  /\ pc = "ready"
  /\ mode \in {"multi", "segment"}
  /\ tasks' = parseMultipleTasks_(input, clock, zone)
  /\ pc' = "parsed"
  /\ UNCHANGED <<input, clock, zone, mode, result, sharedVars, inputVars, meetingVars>>

\* one call of ensureFutureDate(input)
CallEnsureFutureDate ==
  /\ pc = "ready"
  /\ mode = "ensure"
  /\ result' = Some(ensureFutureDate_(input, clock))
  /\ pc' = "parsed"
  /\ UNCHANGED <<input, clock, zone, mode, tasks, sharedVars, inputVars, meetingVars>>

\* one call of extractDueDate(input)
CallExtractDueDate ==
  /\ pc = "ready"
  /\ mode = "dueDate"
  /\ result' = Some(extractDueDate_(input, clock, zone))
  /\ pc' = "parsed"
  /\ UNCHANGED <<input, clock, zone, mode, tasks, sharedVars, inputVars, meetingVars>>

\* parseNaturalLanguage of the sentence createStructuredSentence builds of
\* the parts in input
ParseStructured ==
  /\ pc = "ready"
  /\ mode = "structured"
  /\ result' = Some(parseNaturalLanguage_(
                      createStructuredSentence_(input.taskDescription, input.assignee,
                                               input.dueDate, input.priority),
                      clock, zone))
  /\ pc' = "parsed"
  /\ UNCHANGED <<input, clock, zone, mode, tasks, sharedVars, inputVars, meetingVars>>

\* one call of extractPriority(input)
CallExtractPriority ==
  /\ pc = "ready"
  /\ mode = "keyword"
  /\ result' = Some(extractPriority_(input))
  /\ pc' = "parsed"
  /\ UNCHANGED <<input, clock, zone, mode, tasks, sharedVars, inputVars, meetingVars>>

\* one call of containsTaskAssignment(input)
CallContainsTaskAssignment ==
  /\ pc = "ready"
  /\ mode = "accepts"
  /\ result' = Some(containsTaskAssignment_(input))
  /\ pc' = "parsed"
  /\ UNCHANGED <<input, clock, zone, mode, tasks, sharedVars, inputVars, meetingVars>>

\* one call of parseTaskWithAI on a service made with the key of input,
\* the remote call ending as the completion of input
CallParseTaskWithAI ==
  /\ pc = "ready"
  /\ mode = "remote"
  /\ result' = Some(parseTaskWithAI_(OpenAIService(input.givenKey, input.env),
                                    input.completion, clock, zone))
  /\ pc' = "parsed"
  /\ UNCHANGED <<input, clock, zone, mode, tasks, sharedVars, inputVars, meetingVars>>

\* one call of parseMultipleTasksWithAI
CallParseMultipleTasksWithAI ==
  /\ pc = "ready"
  /\ mode = "remoteMulti"
  /\ result' = Some(parseMultipleTasksWithAI_(OpenAIService(input.givenKey, input.env),
                                             input.env, input.completion, clock, zone))
  /\ pc' = "parsed"
  /\ UNCHANGED <<input, clock, zone, mode, tasks, sharedVars, inputVars, meetingVars>>

Next ==
  \/ CallParseTaskWithAI
  \/ CallParseMultipleTasksWithAI
  \/ ParseSingle
  \/ ParseTranscript
  \/ CallEnsureFutureDate
  \/ CallExtractDueDate
  \/ ParseStructured
  \/ CallContainsTaskAssignment
  \/ CallExtractPriority

Spec == Init /\ [][Next]_vars

(***************************************************************************)
(* TaskInput: the entry of a single task, with the remote model            *)
(***************************************************************************)

\* the component after its mount effect has loaded the key
InitInput ==
  /\ ParserIdle
  /\ InputInitial
  /\ MeetingInitial
  /\ clock \in ComponentNows
  /\ zone \in ComponentZones
  /\ envKey \in {Null, Some(RemoteKey)}
  /\ apiKey = getApiKey(envKey)
  /\ useAI = TRUE
  /\ isProcessing = FALSE
  /\ aiError = Null
  /\ created = <<>>

\* the effect of [input, useAI, apiKey] for the text `text`: the cleanup of
\* its previous run clears the timeout, then a non-blank text starts a new
\* timeout and a blank one resets the preview
ParseEffect(text) ==
  IF ~IsBlank(text)
  THEN /\ isProcessing' = TRUE
       /\ aiError' = Null
       /\ timer' = TRUE
       /\ UNCHANGED parsedData
  ELSE /\ parsedData' = Null
       /\ isProcessing' = FALSE
       /\ aiError' = Null
       /\ timer' = FALSE

\* onChange of the text field: setInput(e.target.value)
ChangeInput(text) ==
  /\ text # input
  /\ input' = text
  /\ ParseEffect(text)
  /\ UNCHANGED <<clock, zone, parserVars, envKey, apiKey, useAI, inflight, meetingVars>>
  /\ created' = <<>>

\* onChange of the 'Use AI' checkbox, shown when a key is set
ToggleInputAI ==
  /\ Truthy(apiKey)
  /\ useAI' = ~useAI
  /\ ParseEffect(input)
  /\ UNCHANGED <<input, clock, zone, parserVars, envKey, apiKey, inflight, meetingVars>>
  /\ created' = <<>>

\* handleApiKeySet(key): the key field saves a non-blank key
handleApiKeySet(key) ==
  /\ ~IsBlank(key)
  /\ apiKey # Some(key)
  /\ apiKey' = Some(key)
  /\ ParseEffect(input)
  /\ UNCHANGED <<input, clock, zone, parserVars, envKey, useAI, inflight, meetingVars>>
  /\ created' = <<>>

\* the callback of the timeout, up to its await or its end
TimerFire ==
  /\ timer
  /\ timer' = FALSE
  /\ IF useAI /\ Truthy(apiKey)
     THEN /\ Len(inflight) < MaxInFlight
          /\ inflight' = Append(inflight,
                                [input   |-> input,
                                 service |-> OpenAIService(apiKey, envKey)])
          /\ UNCHANGED <<parsedData, isProcessing, aiError>>
     ELSE /\ parsedData' = Some(LocalTask_(input, clock, zone))
          /\ isProcessing' = FALSE
          /\ UNCHANGED <<inflight, aiError>>
  /\ UNCHANGED <<input, clock, zone, parserVars, envKey, apiKey, useAI, meetingVars>>
  /\ created' = <<>>

\* the sequence s without its i-th element
RemoveAt(s, i) == SubSeq(s, 1, i - 1) \o SubSeq(s, i + 1, Len(s))

\* the rest of the callback once the i-th remote call has ended as
\* aiParsed: the parsed reply, or on any error the warning and the local
\* parse
AfterAwait(i, aiParsed) ==
  /\ IF aiParsed.ok
     THEN /\ parsedData' = Some(aiParsed.value)
          /\ UNCHANGED aiError
     ELSE /\ aiError' = Some(aiParsed.message)
          /\ parsedData' = Some(LocalTask_(inflight[i].input, clock, zone))
  /\ isProcessing' = FALSE
  /\ inflight' = RemoveAt(inflight, i)
  /\ UNCHANGED <<input, clock, zone, parserVars, envKey, apiKey, useAI, timer, meetingVars>>
  /\ created' = <<>>

\* the i-th remote call ends as `completion`
RemoteSettle(i, completion) ==
  /\ i \in 1..Len(inflight)
  /\ AfterAwait(i, parseTaskWithAI_(inflight[i].service, completion, clock, zone))

\* the Task handleSubmit makes of the parsed task
TaskOfInput(parsed) ==
  [title    |-> parsed.title,
   assignee |-> parsed.assignee,
   dueDate  |-> parsed.dueDate,
   priority |-> parsed.priority,
   status   |-> "pending"]

\* handleSubmit, and the effect run by setInput('')
handleSubmit ==
  /\ ~IsBlank(input)
  /\ created' = <<TaskOfInput(IF parsedData # Null THEN parsedData[1]
                              ELSE LocalTask_(input, clock, zone))>>
  /\ input' = ""
  /\ ParseEffect("")
  /\ UNCHANGED <<clock, zone, parserVars, envKey, apiKey, useAI, inflight,
                 meetingVars>>

NextInput ==
  \/ \E text \in TaskTexts : ChangeInput(text)
  \/ ToggleInputAI
  \/ handleApiKeySet(RemoteKey)
  \/ TimerFire
  \/ \E i \in 1..Len(inflight), completion \in TaskCompletions_(clock) :
       RemoteSettle(i, completion)
  \/ handleSubmit

SpecInput == InitInput /\ [][NextInput]_vars

(***************************************************************************)
(* MeetingMinutesParser: the extraction of the tasks of a transcript       *)
(***************************************************************************)

\* the component after the synchronous part of its mount effect:
\* without a key the key field is shown, with one its check is awaited
InitMeeting ==
  /\ ParserIdle
  /\ InputInitial
  /\ clock \in ComponentNows
  /\ zone \in ComponentZones
  /\ envKey \in {Null, Some(RemoteKey)}
  /\ apiKey = IF getApiKey(envKey) = Null THEN Some("") ELSE envKey
  /\ useAI = TRUE
  /\ isProcessing = FALSE
  /\ aiError = Null
  /\ created = <<>>
  /\ transcript = ""
  /\ parsedTasks = <<>>
  /\ showParsedTasks = FALSE
  /\ parsingMethod = "gpt4"
  /\ parsingSuccess = FALSE
  /\ showApiKeyInput = (getApiKey(envKey) = Null)
  /\ isVerifyingKey = FALSE
  /\ keyVerified = FALSE
  /\ apiConnected = FALSE
  /\ connectionChecked = (getApiKey(envKey) = Null)
  /\ call = Null
  /\ lastParse = Null

\* checkApiConnection after verifyApiKey(existingKey) has answered
checkApiConnection(isValid) ==
  /\ ~connectionChecked
  /\ keyVerified' = isValid
  /\ apiConnected' = isValid
  /\ IF isValid THEN UNCHANGED <<showApiKeyInput, aiError>>
     ELSE /\ showApiKeyInput' = TRUE
          /\ aiError' = Some("API key validation failed. Please check your key.")
  /\ connectionChecked' = TRUE
  /\ UNCHANGED <<input, clock, zone, parserVars, inputVars, envKey, apiKey, useAI,
                 isProcessing, transcript, parsedTasks,
                 showParsedTasks, parsingMethod, parsingSuccess,
                 isVerifyingKey, call, lastParse>>
  /\ created' = <<>>

\* onChange of the key field
ChangeApiKey(key) ==
  /\ showApiKeyInput
  /\ apiKey # Some(key)
  /\ apiKey' = Some(key)
  /\ UNCHANGED <<input, clock, zone, parserVars, inputVars, envKey, useAI,
                 isProcessing, aiError, meetingVars>>
  /\ created' = <<>>

\* handleVerifyApiKey up to its await; the button needs a non-blank key
handleVerifyApiKey ==
  /\ showApiKeyInput
  /\ ~isVerifyingKey
  /\ ~IsBlank(apiKey[1])
  /\ isVerifyingKey' = TRUE
  /\ aiError' = Null
  /\ UNCHANGED <<input, clock, zone, parserVars, inputVars, envKey, apiKey, useAI,
                 isProcessing, transcript, parsedTasks,
                 showParsedTasks, parsingMethod, parsingSuccess,
                 showApiKeyInput, keyVerified, apiConnected,
                 connectionChecked, call, lastParse>>
  /\ created' = <<>>

\* handleVerifyApiKey after verifyApiKey(apiKey) has answered; saveApiKey
\* stores nothing
VerifyDone(isValid) ==
  /\ isVerifyingKey
  /\ IF isValid
     THEN /\ keyVerified' = TRUE
          /\ showApiKeyInput' = FALSE
          /\ aiError' = Null
     ELSE /\ aiError' = Some("Invalid API key. Please check and try again.")
          /\ UNCHANGED <<keyVerified, showApiKeyInput>>
  /\ isVerifyingKey' = FALSE
  /\ UNCHANGED <<input, clock, zone, parserVars, inputVars, envKey, apiKey, useAI,
                 isProcessing, transcript, parsedTasks,
                 showParsedTasks, parsingMethod, parsingSuccess,
                 apiConnected, connectionChecked, call, lastParse>>
  /\ created' = <<>>

\* the button 'Use without AI' of the key field
UseWithoutAI ==
  /\ showApiKeyInput
  /\ showApiKeyInput' = FALSE
  /\ useAI' = FALSE
  /\ UNCHANGED <<input, clock, zone, parserVars, inputVars, envKey, apiKey,
                 isProcessing, aiError, transcript, parsedTasks,
                 showParsedTasks, parsingMethod, parsingSuccess,
                 isVerifyingKey, keyVerified, apiConnected,
                 connectionChecked, call, lastParse>>
  /\ created' = <<>>

\* onChange of the 'Use AI' checkbox
ToggleMeetingAI ==
  /\ useAI' = ~useAI
  /\ showApiKeyInput' =
       IF ~useAI /\ getApiKey(envKey) = Null /\ ~keyVerified THEN TRUE
       ELSE showApiKeyInput
  /\ UNCHANGED <<input, clock, zone, parserVars, inputVars, envKey, apiKey,
                 isProcessing, aiError, transcript, parsedTasks,
                 showParsedTasks, parsingMethod, parsingSuccess,
                 isVerifyingKey, keyVerified, apiConnected,
                 connectionChecked, call, lastParse>>
  /\ created' = <<>>

\* handleTranscriptChange; the field is disabled while processing
handleTranscriptChange(text) ==
  /\ ~isProcessing
  /\ text # transcript
  /\ transcript' = text
  /\ parsedTasks' = <<>>
  /\ showParsedTasks' = FALSE
  /\ parsingSuccess' = FALSE
  /\ lastParse' = Null
  /\ UNCHANGED <<input, clock, zone, parserVars, inputVars, envKey, apiKey, useAI, isProcessing, aiError,
                 parsingMethod, showApiKeyInput, isVerifyingKey, keyVerified,
                 apiConnected, connectionChecked, call>>
  /\ created' = <<>>

\* the test of handleParse for an error "related to API key"
KeyRelated(errorMessage) ==
  \/ includes(errorMessage, "API key")
  \/ includes(errorMessage, "authentication")
  \/ includes(errorMessage, "key")
  \/ includes(errorMessage, "auth")

\* handleParse from the end of parseMultipleTasksWithAI(text) to its own
\* end; `success` is parsingSuccess as the handler last left it
AfterRemote(text, aiParsed, success) ==
  /\ IF aiParsed.ok
     THEN /\ apiConnected' = TRUE
          /\ parsedTasks' = aiParsed.value
          /\ parsingMethod' = "gpt4"
          /\ parsingSuccess' = TRUE
          /\ UNCHANGED <<aiError, showApiKeyInput>>
     ELSE IF KeyRelated(aiParsed.message)
     THEN \* re-thrown: the outer catch replaces the warning and the list
          /\ apiConnected' = FALSE
          /\ showApiKeyInput' = TRUE
          /\ aiError' = Some(aiParsed.message)
          /\ parsedTasks' = <<>>
          /\ parsingSuccess' = success
          /\ UNCHANGED parsingMethod
     ELSE /\ parsedTasks' = LocalTasks_(text, clock, zone)
          /\ parsingMethod' = "local"
          /\ aiError' = Some("GPT-4 parsing unavailable. Using local parser instead.")
          /\ parsingSuccess' = success
          /\ UNCHANGED <<apiConnected, showApiKeyInput>>
  /\ showParsedTasks' = TRUE
  /\ isProcessing' = FALSE
  /\ lastParse' = [text   |-> text,
                   status |-> IF aiParsed.ok THEN "resolved" ELSE "rejected"]

\* handleParse up to its await, or to its end when it does not await
handleParse ==
  /\ ~IsBlank(transcript)
  /\ ~isProcessing
  /\ IF useAI /\ getApiKey(envKey) = Null /\ ~keyVerified
     THEN /\ showApiKeyInput' = TRUE
          /\ lastParse' = [text |-> transcript, status |-> "dropped"]
          /\ UNCHANGED <<isProcessing, aiError, parsingSuccess, parsedTasks,
                         parsingMethod, showParsedTasks, apiConnected, call>>
     ELSE IF useAI
     THEN LET openaiService == OpenAIService(Null, envKey)
          IN IF openaiService.openai
             THEN /\ isProcessing' = TRUE
                  /\ aiError' = Null
                  /\ parsingSuccess' = FALSE
                  /\ call' = Some([transcript |-> transcript,
                                   service    |-> openaiService])
                  /\ lastParse' = [text |-> transcript, status |-> "pending"]
                  /\ UNCHANGED <<parsedTasks, parsingMethod, showParsedTasks,
                                 apiConnected, showApiKeyInput>>
             ELSE \* without a client the call is rejected before any request
                  /\ AfterRemote(transcript,
                                 parseMultipleTasksWithAI_(openaiService, envKey,
                                                          [kind |-> "empty"],
                                                          clock, zone),
                                 FALSE)
                  /\ UNCHANGED call
     ELSE /\ parsedTasks' = LocalTasks_(transcript, clock, zone)
          /\ parsingMethod' = "local"
          /\ showParsedTasks' = TRUE
          /\ aiError' = Null
          /\ parsingSuccess' = FALSE
          /\ isProcessing' = FALSE
          /\ lastParse' = [text |-> transcript, status |-> "local"]
          /\ UNCHANGED <<apiConnected, showApiKeyInput, call>>
  /\ UNCHANGED <<input, clock, zone, parserVars, inputVars, envKey, apiKey, useAI,
                 transcript, isVerifyingKey, keyVerified,
                 connectionChecked>>
  /\ created' = <<>>

\* the rest of handleParse once the remote call has ended
ParseSettle(completion) ==
  /\ AfterRemote(call[1].transcript,
                 parseMultipleTasksWithAI_(call[1].service, envKey, completion,
                                          clock, zone),
                 parsingSuccess)
  /\ call' = Null
  /\ UNCHANGED <<input, clock, zone, parserVars, inputVars, envKey, apiKey, useAI,
                 transcript, isVerifyingKey, keyVerified,
                 connectionChecked>>
  /\ created' = <<>>

\* handleAddAllTasks
handleAddAllTasks ==
  /\ showParsedTasks
  /\ parsedTasks # <<>>
  /\ created' = [i \in 1..Len(parsedTasks) |-> TaskOfParsed_(parsedTasks[i], clock, zone)]
  /\ transcript' = ""
  /\ parsedTasks' = <<>>
  /\ showParsedTasks' = FALSE
  /\ parsingSuccess' = FALSE
  /\ lastParse' = Null
  /\ UNCHANGED <<input, clock, zone, parserVars, inputVars, envKey, apiKey, useAI,
                 isProcessing, aiError, parsingMethod, showApiKeyInput,
                 isVerifyingKey, keyVerified, apiConnected, connectionChecked,
                 call>>

\* handleRemoveTask(index)
handleRemoveTask(index) ==
  /\ showParsedTasks
  /\ index \in 1..Len(parsedTasks)
  /\ parsedTasks' = RemoveAt(parsedTasks, index)
  /\ lastParse' = Null
  /\ UNCHANGED <<input, clock, zone, parserVars, inputVars, envKey, apiKey, useAI, isProcessing, aiError, transcript,
                 showParsedTasks, parsingMethod, parsingSuccess,
                 showApiKeyInput, isVerifyingKey, keyVerified, apiConnected,
                 connectionChecked, call>>
  /\ created' = <<>>

\* handleUpdateTask(index, {...task, priority}): the priority select
handleUpdateTask(index, priority) ==
  /\ showParsedTasks
  /\ index \in 1..Len(parsedTasks)
  /\ parsedTasks[index].priority # priority
  /\ parsedTasks' = [parsedTasks EXCEPT ![index].priority = priority]
  /\ lastParse' = Null
  /\ UNCHANGED <<input, clock, zone, parserVars, inputVars, envKey, apiKey, useAI, isProcessing, aiError, transcript,
                 showParsedTasks, parsingMethod, parsingSuccess,
                 showApiKeyInput, isVerifyingKey, keyVerified, apiConnected,
                 connectionChecked, call>>
  /\ created' = <<>>

NextMeeting ==
  \/ \E isValid \in BOOLEAN : checkApiConnection(isValid)
  \/ \E key \in KeyTexts : ChangeApiKey(key)
  \/ handleVerifyApiKey
  \/ \E isValid \in BOOLEAN : VerifyDone(isValid)
  \/ UseWithoutAI
  \/ ToggleMeetingAI
  \/ \E text \in MeetingTexts : handleTranscriptChange(text)
  \/ handleParse
  \/ call # Null /\ \E completion \in MeetingCompletions_(clock) :
                      ParseSettle(completion)
  \/ handleAddAllTasks
  \/ \E index \in 1..Len(parsedTasks) : handleRemoveTask(index)
  \/ \E index \in 1..Len(parsedTasks), priority \in SelectedPriorities :
       handleUpdateTask(index, priority)

SpecMeeting == InitMeeting /\ [][NextMeeting]_vars

(***************************************************************************)
(* Properties                                                              *)
(***************************************************************************)
\* the local Date of the instant an ISO string denotes
DueLocal(task) == DateFromString_(task.dueDate, zone).t

SingleParsed == pc = "parsed" /\ mode = "single"

MultiParsed == pc = "parsed" /\ mode = "multi"

\* C1: the dueDate returned by parseNaturalLanguage is never earlier than
\* the reference instant `clock` of the call.
C1_DueDateNotBeforeNow ==
  SingleParsed => ~Before(DueLocal(result[1]), clock)

\* C2: every ParsedTask shown by TaskInput, whichever path produced it
\* (the local parser or a reply of the remote model), has a priority of
\* P1..P4.
C2_PriorityInRange ==
  parsedData # Null => parsedData[1].priority \in Priorities

\* C3: when the remote call of handleParse is rejected, with any error, the
\* list shown is parseMultipleTasks of the text of the request and the
\* warning aiError is set.
C3_RejectedGivesLocal ==
  (lastParse # Null /\ lastParse.status = "rejected") =>
    /\ parsedTasks = LocalTasks_(lastParse.text, clock, zone)
    /\ aiError # Null

\* C4: without a credential in the environment a parse request with a
\* non-blank text is never dropped, and once it has ended the list shown is
\* the local parser's, with 'Use AI' on or off.
C4_NoKeyGivesLocal ==
  (envKey = Null /\ lastParse # Null) =>
    /\ lastParse.status # "dropped"
    /\ lastParse.status # "pending" =>
         /\ showParsedTasks
         /\ parsedTasks = LocalTasks_(lastParse.text, clock, zone)

\* C5 (on finite runs): a parse request that is no longer pending has ended
\* in Done: isProcessing is false and a result is shown, the remote one
\* when the call resolved and the local one in every other case.
C5_EndsInDone ==
  (lastParse # Null /\ lastParse.status # "pending") =>
    /\ ~isProcessing
    /\ showParsedTasks
    /\ lastParse.status # "resolved" =>
         /\ parsingMethod = "local"
         /\ parsedTasks = LocalTasks_(lastParse.text, clock, zone)

\* C6: a transcript of N sentences '<Name> you <task> by <date phrase>'
\* gives exactly N tasks, in order, the i-th assigned to the i-th Name.
C6_NameYouAssignees ==
  MultiParsed =>
    \A n \in 1..NameYouCount :
      input = NameYouTranscript(n) =>
        /\ Len(tasks) = n
        /\ \A i \in 1..n : tasks[i].assignee = NameYouSentences[i].name

\* C7: without a 'for'/'with' phrase the capitalized name of the sentence
\* is the assignee ('Call client Rajeev tomorrow 5pm' -> 'Rajeev'), and the
\* assignee is empty only when neither pattern matches the input.
C7_CapitalizedNameAssignee ==
  SingleParsed =>
    /\ input = "Call client Rajeev tomorrow 5pm" => result[1].assignee = "Rajeev"
    /\ result[1].assignee = "" =>
         /\ FirstPos(ForWithAt, input, 1) = 0
         /\ FirstPos(CapNameAt, input, 1) = 0

\* C8: 'for <Name>' followed by further words gives exactly the name as
\* written: 'Finish landing page for Aman by 11pm 20th June P1' -> 'Aman'.
C8_ForNameAssignee ==
  SingleParsed =>
    (input = "Finish landing page for Aman by 11pm 20th June P1"
       => result[1].assignee = "Aman")

\* (month, day) of a is not before (month, day) of b, both 1-based
MonthDayNotBefore(m, d, t) ==
  m > getMonth(t) + 1 \/ (m = getMonth(t) + 1 /\ d >= getDate(t))

\* C9: an input naming a month and a day valid for it gives a dueDate of
\* exactly that month and day, in the current year when that date is not
\* before today and in the next year otherwise.
C9_MonthDayKept ==
  SingleParsed =>
    \A c \in AbsoluteCases :
      input = c.text =>
        LET due == DueLocal(result[1])
        IN /\ getMonth(due) + 1 = c.month
           /\ getDate(due) = c.day
           /\ getFullYear(due) =
                IF MonthDayNotBefore(c.month, c.day, clock)
                THEN getFullYear(clock) ELSE getFullYear(clock) + 1

\* C10: 'tomorrow' with a time 'Hpm' (1 <= H <= 11) and no priority signal
\* gives the calendar day after clock's, local time (H+12):00,
\* timeSpecified, dueTimeFormatted 'H:00 PM' and priority P3.
C10_TomorrowPm ==
  SingleParsed =>
    \A c \in TomorrowCases :
      (input = c.text /\ c.H >= 1 /\ c.H <= 11) =>
        LET due == DueLocal(result[1])
        IN /\ due.day = clock.day + 1
           /\ getHours(due) = c.H + 12
           /\ getMinutes(due) = 0
           /\ getSeconds(due) = 0
           /\ result[1].timeSpecified = TRUE
           /\ result[1].dueTimeFormatted = Some(NumStr(c.H) \o ":00 PM")
           /\ result[1].priority = "P3"

\* a year's last evening: tomorrow is in the next year
C10_Witness ==
  /\ SingleParsed
  /\ input = "Call client Rajeev tomorrow 5pm"
  /\ getMonth(clock) = 11 /\ getDate(clock) = 31
  /\ getFullYear(DueLocal(result[1])) = getFullYear(clock) + 1
  /\ result[1].dueTimeFormatted = Some("5:00 PM")

\* C11: the date returned by ensureFutureDate, for any date given, has a
\* (year, month, day) that is not before that of the reference instant.
C11_EnsuredNotBeforeToday ==
  (pc = "parsed" /\ mode = "ensure") => result[1].day >= clock.day

\* the offset d is in 1..7, leads from the weekday `current` to the weekday
\* `named`, and is 7 when they are the same
WeekdayOffset(d, current, named) ==
  /\ d \in 1..7
  /\ (current + d) % 7 = named
  /\ current = named => d = 7

\* C12: for every current weekday and every named weekday, the due day of
\* parseNaturalLanguage and of extractDueDate is d days after today with
\* 1 <= d <= 7 and (current + d) mod 7 = named; d = 7 for today's weekday.
C12_WeekdayOffset ==
  /\ (pc = "parsed" /\ mode = "weekday") =>
       \A c \in WeekdayCases :
         input = c.text =>
           WeekdayOffset(DueLocal(result[1]).day - clock.day, getDay(clock), c.day)
  /\ (pc = "parsed" /\ mode = "dueDate") =>
       \A c \in DueWeekdayCases :
         input = c.text =>
           /\ result[1] # ""
           /\ WeekdayOffset(DateFromString_(result[1], zone).t.day - clock.day,
                            getDay(clock), c.day)

\* a Sunday on which 'Sunday' is named: the Sunday a week later
C12_Witness ==
  /\ pc = "parsed" /\ mode = "weekday"
  /\ input = "Send report Sunday"
  /\ getDay(clock) = 0
  /\ DueLocal(result[1]).day = clock.day + 7

\* C13: parseNaturalLanguage of the sentence that createStructuredSentence
\* builds of a description, a non-empty assignee X, a date and a priority P
\* returns assignee X and priority P.
C13_StructuredRoundTrip ==
  (pc = "parsed" /\ mode = "structured") =>
    /\ result[1].assignee = input.assignee
    /\ result[1].priority = input.priority

\* C14: parseMultipleTasks emits no task for a segment without a task
\* indicator, whatever else the segment contains; a segment is accepted
\* exactly when it has a task indicator and a capitalized word, a time
\* indicator or an assignee indicator.
C14_SegmentAccepted ==
  /\ (pc = "parsed" /\ mode = "accepts") =>
       \A c \in SegmentCases :
         input = c.text =>
           (result[1] <=> (c.task /\ (c.cap \/ c.time \/ c.assignee)))
  /\ (pc = "parsed" /\ mode = "segment") =>
       \A c \in SegmentCases : (input = c.text /\ ~c.task) => tasks = <<>>
  /\ MultiParsed =>
       (~includesAny_(toLowerCase(input), taskIndicators) => tasks = <<>>)

\* a segment with a colon, a pronoun, capitalized words and a weekday but
\* no task indicator
C14_Witness ==
  /\ pc = "parsed" /\ mode = "segment"
  /\ input = "John: they met on Monday"
  /\ tasks = <<>>

\* C15: parseMultipleTasks of the empty string, or of a string of white
\* space only, returns the empty list.
C15_BlankGivesNoTasks ==
  (MultiParsed /\ IsBlank(input)) => tasks = <<>>

\* a transcript of spaces and a newline
C15_Witness ==
  /\ MultiParsed
  /\ input = "  \n "
  /\ tasks = <<>>

\* the fields of a ParsedTask returned by parseNaturalLanguage
ParsedTaskFields ==
  {"title", "assignee", "dueDate", "priority", "dueDateFormatted",
   "dueTimeFormatted", "timeSpecified", "priorityText", "priorityReason"}

\* C16: parseNaturalLanguage returns a ParsedTask with a valid dueDate for
\* every input; the title is non-empty and trimmed for every non-blank
\* input; an input without any signal gives title = trimmed input,
\* assignee '', priority P3, the time 17:00 and timeSpecified false.
C16_TotalWithDefaults ==
  SingleParsed =>
    /\ DOMAIN result[1] = ParsedTaskFields
    /\ DateFromString_(result[1].dueDate, zone).valid
    /\ result[1].priority \in Priorities
    /\ ~IsBlank(input) =>
         /\ result[1].title # ""
         /\ ~IsBlank(SubSeq(result[1].title, 1, 1))
         /\ ~IsBlank(SubSeq(result[1].title, Len(result[1].title), Len(result[1].title)))
    /\ input \in PlainSentences =>
         /\ \E i, j \in 1..Len(input) :
              /\ result[1].title = SubSeq(input, i, j)
              /\ IsBlank(SubSeq(input, 1, i - 1))
              /\ IsBlank(SubSeq(input, j + 1, Len(input)))
         /\ result[1].assignee = ""
         /\ result[1].priority = "P3"
         /\ getHours(DueLocal(result[1])) = 17
         /\ getMinutes(DueLocal(result[1])) = 0
         /\ result[1].timeSpecified = FALSE
         /\ result[1].dueTimeFormatted = Null

\* a plain input with white space around it
C16_Witness ==
  /\ SingleParsed
  /\ input = "  clean the desk \n"
  /\ result[1].title = "clean the desk"
  /\ result[1].priority = "P3"

\* the call of the adapter has ended
RemoteParsed == pc = "parsed" /\ mode = "remote"

RemoteMultiParsed == pc = "parsed" /\ mode = "remoteMulti"

\* the reply is a JSON object and a credential is configured
UsableReply ==
  /\ Truthy(input.givenKey)
  /\ input.completion.kind = "json"

\* the element of the reply has a dueDate that new Date() can read
ReadableDueDate(element) ==
  /\ Truthy(element.dueDate)
  /\ DateFromString_(element.dueDate[1], zone).valid

\* C17: parseMultipleTasksWithAI, given a JSON reply with a list 'tasks',
\* returns one task per element; an element without title, without
\* priority or without a readable dueDate gets 'Untitled Task', P3 and
\* tomorrow's date, and the fields that are present are kept.
C17_MalformedElementDefaults ==
  (RemoteMultiParsed /\ UsableReply /\ input.completion.value.tasks # Null) =>
    LET elements == input.completion.value.tasks[1]
    IN /\ result[1].ok
       /\ Len(result[1].value) = Len(elements)
       /\ \A i \in 1..Len(elements) :
            LET element == elements[i]
                task == result[1].value[i]
            IN /\ task.title = IF Truthy(element.title) THEN element.title[1]
                               ELSE "Untitled Task"
               /\ task.priority = IF Truthy(element.priority) THEN element.priority[1]
                                  ELSE "P3"
               /\ ~ReadableDueDate(element) => DueLocal(task).day = clock.day + 1

\* C18: parseTaskWithAI throws or returns a task with title, dueDate and
\* priority; it throws without a credential, when the remote call fails,
\* on an empty or non-JSON reply and when title, dueDate or priority is
\* missing.
C18_ThrowsOrComplete ==
  RemoteParsed =>
    /\ result[1].ok =>
         /\ result[1].value.title # ""
         /\ result[1].value.priority # ""
         /\ DateFromString_(result[1].value.dueDate, zone).valid
    /\ (\/ ~UsableReply
        \/ ~Truthy(input.completion.value.title)
        \/ ~Truthy(input.completion.value.dueDate)
        \/ ~Truthy(input.completion.value.priority)) => ~result[1].ok

\* a reply without priority, with a credential
C18_Witness ==
  /\ RemoteParsed
  /\ UsableReply
  /\ input.completion.value.priority = Null
  /\ Truthy(input.completion.value.title)
  /\ ~result[1].ok
  /\ result[1].message = "Invalid response structure from OpenAI"

\* C19: the dueDate of the task returned by parseTaskWithAI, and of every
\* task returned by parseMultipleTasksWithAI, is not earlier than the
\* instant of the call, whatever dueDate the remote model returned.
C19_RemoteDueDateNotBeforeCall ==
  /\ (RemoteParsed /\ result[1].ok) => ~Before(DueLocal(result[1].value), clock)
  /\ (RemoteMultiParsed /\ result[1].ok) =>
       \A i \in 1..Len(result[1].value) :
         ~Before(DueLocal(result[1].value[i]), clock)

\* C20: once no timeout and no remote call is pending, the preview of
\* TaskInput is not the parse of a text the field held earlier: the reply
\* to an abandoned request never replaces the result for the newest text.
C20_NoStaleResult ==
  (~timer /\ inflight = <<>> /\ ~IsBlank(input)) =>
    \A text \in TaskTexts :
      (~IsBlank(text) /\ text # input) =>
        parsedData # Some(LocalTask_(text, clock, zone))

\* C21: a date on today's calendar day with a clock time earlier than the
\* reference instant is returned by ensureFutureDate one day later, at the
\* same clock time.
C21_EarlierTodayPlusOneDay ==
  (pc = "parsed" /\ mode = "ensure" /\ input.day = clock.day /\ input.sec < clock.sec) =>
    result[1] = [day |-> input.day + 1, sec |-> input.sec]

\* C22: of several date expressions in a sentence the one of the highest
\* class decides: a relative word before a weekday name or an absolute
\* date, a weekday name before an absolute date.
C22_DatePrecedence ==
  SingleParsed =>
    \A c \in PrecedenceCases :
      input = c.text =>
        LET d == DueLocal(result[1]).day - clock.day
        IN IF c.class = "relative" THEN d = c.n
           ELSE WeekdayOffset(d, getDay(clock), c.n)

\* C23: an input whose only digits are those of a priority token or of the
\* day number of an absolute date states no time of day: the time is
\* 17:00, timeSpecified is false and dueTimeFormatted is null.
C23_DigitsAreNotTime ==
  (SingleParsed /\ input \in NoTimeSentences) =>
    /\ result[1].timeSpecified = FALSE
    /\ result[1].dueTimeFormatted = Null
    /\ getHours(DueLocal(result[1])) = 17
    /\ getMinutes(DueLocal(result[1])) = 0

\* C24: an hour token H with an optional minute and an optional am/pm
\* suffix gives hour H+12 for 'pm' and H < 12, hour 0 for 'am' and H = 12
\* and hour H otherwise; when that hour is outside 0..23 or the minute
\* outside 0..59 the time is 17:00 and timeSpecified is false.
C24_HourConversion ==
  (pc = "parsed" /\ mode = "hour") =>
    \A c \in HourCases :
      input = c.text =>
        LET hour   == IF c.suffix = "pm" /\ c.H < 12 THEN c.H + 12
                      ELSE IF c.suffix = "am" /\ c.H = 12 THEN 0
                      ELSE c.H
            minute == IF c.minute < 0 THEN 0 ELSE c.minute
            due    == DueLocal(result[1])
        IN IF hour \in 0..23 /\ minute \in 0..59
           THEN /\ getHours(due) = hour
                /\ getMinutes(due) = minute
                /\ result[1].timeSpecified = TRUE
           ELSE /\ getHours(due) = 17
                /\ getMinutes(due) = 0
                /\ result[1].timeSpecified = FALSE

\* midnight written as 12am
C24_Witness ==
  /\ pc = "parsed" /\ mode = "hour"
  /\ input = "Ring at 12am"
  /\ getHours(DueLocal(result[1])) = 0
  /\ result[1].timeSpecified = TRUE

\* C25: the title is the trimmed text before the stop token that occurs
\* earliest in the input, whichever place the token has in the stop list,
\* and the whole trimmed input when the input has no stop token.
C25_TitleBeforeEarliestStop ==
  SingleParsed =>
    LET text  == toLowerCase(input)
        words == stopWords \o commonNames
        found == { indexOf_(text, words[k]) : k \in 1..Len(words) } \ {-1}
        first == CHOOSE i \in found : \A j \in found : i <= j
    IN IF found = {} THEN result[1].title = trim(input)
       ELSE trim(Sub(input, 1, first)) # "" =>
              result[1].title = trim(Sub(input, 1, first))

\* C26: the priority step of parseNaturalLanguage takes the first class
\* present in the order explicit token, urgency word, importance word,
\* low-priority word, and P3 when none is present.
C26_PriorityFirstMatch ==
  (pc = "parsed" /\ mode = "priority") =>
    \A c \in PriorityCases :
      input = c.text =>
        result[1].priority =
          IF c.explicit # 0 THEN "P" \o NumStr(c.explicit)
          ELSE IF c.urgency THEN "P1"
          ELSE IF c.importance THEN "P2"
          ELSE IF c.low THEN "P4"
          ELSE "P3"

\* an explicit P4 after every keyword
C26_Witness ==
  /\ pc = "parsed" /\ mode = "priority"
  /\ input = "Fix bug low priority important urgent P4"
  /\ result[1].priority = "P4"

\* C27: in parseNaturalLanguage and in extractPriority, a text with one
\* of the listed keywords and no explicit token gets the level of the
\* keyword: P1 for urgent, asap, emergency, critical, immediately; P2 for
\* important, high priority, significant, key, major; P4 for low priority,
\* whenever.
C27_KeywordLevels ==
  \A c \in KeywordCases :
    (pc = "parsed" /\ input = c.text) =>
      /\ mode = "priority" => result[1].priority = c.level
      /\ mode = "keyword" => result[1] = c.level

\* C28: for a segment with a due-date phrase that extractDueDate
\* recognises, the task of parseMultipleTasks has the calendar date and the
\* time of day of the instant extractDueDate computed from the segment.
C28_DueDateSurvivesReassembly ==
  (pc = "parsed" /\ mode = "segment" /\ input \in DueSegments /\ Len(tasks) = 1) =>
    LET segment == splitSegments(preprocessText_(input))[1]
        dueDate == extractDueDate_(segment, clock, zone)
    IN dueDate # "" =>
         DueLocal(tasks[1]) = DateFromString_(dueDate, zone).t

\* C29: the Task handleSubmit creates is derived from a parse of the input
\* as it is at submit time.  Without a key every parse is the local one, so
\* there the Task is the local parse of the submitted text, never that of
\* an earlier text.
C29_SubmitParsesCurrentInput ==
  [][(created' # <<>> /\ ~Truthy(apiKey)) =>
       created'[1] = TaskOfInput(LocalTask_(input, clock, zone))]_vars

\* dueTimeFormatted is not null exactly when timeSpecified is true
TimeFieldsAgree(parsedTask) ==
  (parsedTask.dueTimeFormatted # Null) <=> parsedTask.timeSpecified

\* C30: in every ParsedTask of parseNaturalLanguage, parseTaskWithAI and
\* parseMultipleTasksWithAI, dueTimeFormatted is not null exactly when
\* timeSpecified is true.
C30_TimeFieldsAgree ==
  /\ (pc = "parsed" /\ mode \in {"single", "weekday", "hour", "priority"}) =>
       TimeFieldsAgree(result[1])
  /\ (RemoteParsed /\ result[1].ok) => TimeFieldsAgree(result[1].value)
  /\ (RemoteMultiParsed /\ result[1].ok) =>
       \A i \in 1..Len(result[1].value) : TimeFieldsAgree(result[1].value[i])

====
